---------------------------- MODULE Spec2Model ----------------------------
(***************************************************************************)
(* Verification model of the webtoon panel pipeline:                       *)
(*   - WebtoonPipelineGoogle._split_by_ratio   (ratio constrained splitter)*)
(*   - TextTypeClassifier.classify             (region classifier)         *)
(*   - WebtoonBubbleProcessor.process          (panel verdict aggregator)  *)
(* Each component has its own specification (SpecSplit, SpecClassify,      *)
(* SpecProcess) over the shared variable list; the variables of the        *)
(* components a specification does not run stay at their idle values.      *)
(***************************************************************************)
EXTENDS Integers, Sequences, FiniteSets, TLC

VARIABLES
    \* ---- _split_by_ratio: arguments, locals and position ----
    all_gaps,        \* argument: sequence of gap records, ordered by start
    total_height,    \* argument: page height H
    max_cut_height,  \* argument: maxPanelHeight M
    min_panel_gap,   \* argument: minPanelGapHeight
    panel_gaps,      \* local: gaps with height >= min_panel_gap, after trimming
    start_y,         \* local
    end_y,           \* local
    boundaries,      \* local, the returned list
    current_pos,     \* local of the walking loop
    y,               \* local of the fixed-height loop
    split_pc,        \* position inside _split_by_ratio
    \* ---- TextTypeClassifier.classify: arguments, result and position ----
    cls_text,         \* argument text
    cls_is_in_bubble, \* argument is_in_bubble
    cls_result,       \* the dict result
    cls_pc,           \* position inside classify
    \* ---- WebtoonBubbleProcessor: configuration, locals of process ----
    use_ocr,          \* self.use_ocr
    ocr_available,    \* self.ocr_available
    yolo_available,   \* self.yolo_available
    has_classifier,   \* self.classifier is not None
    img,              \* local: "unset", "None" (unreadable) or "array"
    bubbles,          \* local: the detected bubbles, by index
    bubble_idx,       \* bubbles visited by the loop at lines 233-244
    detected_texts,   \* local
    scan_calls,       \* calls of _scan_floating_text made so far
    floating_data,    \* local data of _scan_floating_text (line 161)
    result,           \* the dict result
    proc_pc,          \* position inside process
    \* ---- WebtoonPipelineGoogle.remove_speech_bubbles_selective ----
    classification,   \* argument: the four lists of file names
    cuts_dir,         \* the names of the files present in cuts_dir
    delay,            \* argument: seconds to wait between edit calls
    slept,            \* the waits of line 994: after which file, how long
    output_dir,       \* the files of output_dir: name -> content
    api_requests,     \* the files sent to client.models.generate_content
    stats,            \* self.stats, the counters used here
    results,          \* local, the returned list
    current,          \* local counter of the two loops
    sel_pc,           \* position inside remove_speech_bubbles_selective
    \* ---- WebtoonPipelineGoogle._detect_gaps_for_ratio ----
    is_gap,           \* local: per row, the row is blank (row r is is_gap[r + 1])
    min_height,       \* argument min_height
    det_gaps,         \* local gaps, the returned list
    in_gap,           \* local
    gap_start,        \* local
    det_i,            \* local i of the loop over the rows
    det_pc,           \* position inside _detect_gaps_for_ratio
    \* ---- WebtoonPipelineGoogle.split_into_cuts, the saving of the cuts ----
    png_files,        \* argument: per page, whether it opens and its boundaries
    file_idx,         \* pages visited by the loop at line 347
    cuts_boundaries,  \* local: the boundaries of the page being cut
    cut_i,            \* local i of the loop at line 380
    cuts_saved,       \* local
    all_cuts,         \* local, the returned list: the files written
    cuts_total,       \* self.stats['cuts_total']
    cut_pc,           \* position inside split_into_cuts
    \* ---- WebtoonPipelineGoogle.analyze_cuts_for_bubble ----
    cut_files,         \* local: sorted names of the cut files of cuts_dir
    processor_ready,   \* whether self.bubble_processor is set or can be set
    outcomes,          \* per cut, what bubble_processor.process does with it
    an_idx,            \* cuts visited by the loop at line 677
    an_result,         \* local result, the returned dict
    an_pc,             \* position inside analyze_cuts_for_bubble
    \* ---- webtoon_pipeline_app.py, step 2: pre-classification and adjustment ----
    cut_info_list,       \* session: per page, the number of its cut files
    app_outcomes,        \* per cut, what WebtoonBubbleProcessor.process does with it
    cut_classification,  \* session (all_classification while it is being built)
    app_page,            \* pages visited by the loop at line 1080
    app_cut,             \* cuts of the page visited by the loop at line 1093
    app_sent,            \* cuts handed to remove_speech_bubbles
    app_copied,          \* cuts copied from cuts_dir to final_dir
    app_pc,              \* where the step-2 page is
    \* ---- WebtoonPipelineGoogle.remove_speech_bubbles ----
    rsb_cut_files,    \* argument cut_files
    rsb_readable,     \* the cut files that can be opened
    rsb_delay,        \* argument delay
    rsb_i,            \* cuts visited by the loop at line 826
    rsb_retry,        \* local retry of the loop at line 849
    rsb_last_error,   \* local last_error
    rsb_calls,        \* the calls of generate_content and how each ended
    rsb_sleeps,       \* the calls of time.sleep
    rsb_stats,        \* self.stats, the counters used here
    rsb_results,      \* local results, the returned list
    rsb_pc,           \* position inside remove_speech_bubbles
    \* ---- webtoon_pipeline_app: the stages of a session ----
    session_state,    \* st.session_state between two runs of the script
    ses_pc            \* "idle" outside the app's session, else "run"

splitVars == <<all_gaps, total_height, max_cut_height, min_panel_gap,
               panel_gaps, start_y, end_y, boundaries, current_pos, y, split_pc>>

clsVars == <<cls_text, cls_is_in_bubble, cls_result, cls_pc>>

procVars == <<use_ocr, ocr_available, yolo_available, has_classifier, img,
              bubbles, bubble_idx, detected_texts, scan_calls, floating_data,
              result, proc_pc>>

selVars == <<classification, cuts_dir, delay, slept, output_dir, api_requests,
             stats, results, current, sel_pc>>

detVars == <<is_gap, min_height, det_gaps, in_gap, gap_start, det_i, det_pc>>

cutVars == <<png_files, file_idx, cuts_boundaries, cut_i, cuts_saved, all_cuts, cuts_total, cut_pc>>

anVars == <<cut_files, processor_ready, outcomes, an_idx, an_result, an_pc>>

appVars == <<cut_info_list, app_outcomes, cut_classification, app_page, app_cut, app_sent, app_copied, app_pc>>

rsbVars == <<rsb_cut_files, rsb_readable, rsb_delay, rsb_i, rsb_retry, rsb_last_error, rsb_calls, rsb_sleeps, rsb_stats, rsb_results, rsb_pc>>

sesVars == <<session_state, ses_pc>>

vars == <<splitVars, clsVars, procVars, selVars, detVars, cutVars, anVars, appVars, rsbVars, sesVars>>

\* what the actions of one component leave alone
otherThanSplit == <<clsVars, procVars, selVars, detVars, cutVars, anVars, appVars, rsbVars, sesVars>>
otherThanCls == <<splitVars, procVars, selVars, detVars, cutVars, anVars, appVars, rsbVars, sesVars>>
otherThanProc == <<splitVars, clsVars, selVars, detVars, cutVars, anVars, appVars, rsbVars, sesVars>>
otherThanSel == <<splitVars, clsVars, procVars, detVars, cutVars, anVars, appVars, rsbVars, sesVars>>
otherThanDet == <<splitVars, clsVars, procVars, selVars, cutVars, anVars, appVars, rsbVars, sesVars>>
otherThanCut == <<splitVars, clsVars, procVars, selVars, detVars, anVars, appVars, rsbVars, sesVars>>
otherThanAn == <<splitVars, clsVars, procVars, selVars, detVars, cutVars, appVars, rsbVars, sesVars>>
otherThanApp == <<splitVars, clsVars, procVars, selVars, detVars, cutVars, anVars, rsbVars, sesVars>>
otherThanRsb == <<splitVars, clsVars, procVars, selVars, detVars, cutVars, anVars, appVars, sesVars>>
otherThanSes == <<splitVars, clsVars, procVars, selVars, detVars, cutVars, anVars, appVars, rsbVars>>

-----------------------------------------------------------------------------
(* Generic helpers *)

Last(s) == s[Len(s)]

Min2(a, b) == IF a <= b THEN a ELSE b

SeqRange(s) == {s[i] : i \in 1..Len(s)}

StrictlyIncreasing(s) == \A i \in 1..(Len(s) - 1) : s[i] < s[i + 1]

-----------------------------------------------------------------------------
(* Ratio constrained splitter: WebtoonPipelineGoogle._split_by_ratio *)

\* rows from the page top / bottom inside which a panel gap is a page margin
MarginRows == 50

\* a gap farther than this many budgets from current_pos is not stretched to
StretchFactor == 2

\* gap record as built by _detect_gaps_for_ratio
MkGap(s, e) == [start |-> s, end |-> e, mid |-> (s + e) \div 2, height |-> e - s + 1]

\* ---- bounds of the checked inputs ----
MaxGaps == 3          \* longest gap sequence on a grid page
MaxTileHeight == 12   \* largest H and M of the gap-free pages

\* heights and budgets of the grid pages
GridHeights == {299, 300}
GridBudgets == {60, 100, 150, 300}
PanelGapMinima == {40, 51}

\* rows a grid gap may start or end at: the multiples of MarginRows and the
\* rows just below them, so that both sides of every margin test occur
GridRows(H) == {r \in 0..(H - 1) : r % MarginRows \in {0, MarginRows - 1}}

\* ordered gap sequences of at most k gaps inside [lo, H-1], consecutive gaps
\* separated by at least one non-blank row
RECURSIVE GapSeqs(_, _, _)
GapSeqs(H, lo, k) ==
    IF k = 0 THEN {<<>>}
    ELSE {<<>>} \cup
         UNION { { <<MkGap(s, e)>> \o rest : rest \in GapSeqs(H, e + 2, k - 1) } :
                 <<s, e>> \in { p \in GridRows(H) \X GridRows(H) :
                                p[1] >= lo /\ p[1] <= p[2] } }

GridInputs ==
    { [gaps |-> g, H |-> H, M |-> M, mpg |-> m] :
        <<H, g>> \in UNION { {HH} \X GapSeqs(HH, 0, MaxGaps) : HH \in GridHeights },
        M \in GridBudgets, m \in PanelGapMinima }

\* the 600-row uniform run centred on the page midpoint
MidGapRows == 600
MidGapHeights == {600, 601, 650, 698, 699, 700, 701, 1200}
MidGapPanelGapMinima == {40, 601}
MidGapInputs ==
    UNION { { [gaps |-> <<MkGap(s, s + MidGapRows - 1)>>, H |-> H, M |-> M, mpg |-> m] :
                s \in {(H - MidGapRows) \div 2, (H - MidGapRows + 1) \div 2},
                M \in {H, H + 1, 2 * H},
                m \in MidGapPanelGapMinima } :
            H \in {HH \in MidGapHeights : HH >= MidGapRows} }

\* pages without any gap
TileInputs ==
    { [gaps |-> <<>>, H |-> H, M |-> M, mpg |-> 40] :
        H \in 1..MaxTileHeight, M \in 1..MaxTileHeight }

SplitInputs == GridInputs \cup MidGapInputs \cup TileInputs

\* pages of a few rows, every budget from 1 row: a gap may be any run of rows
MaxSmallHeight == 5   \* tallest of the small pages
SmallBudgets == {1, 2, 3}
SmallPanelGapMinima == {1, 40}

\* ordered gap sequences inside [lo, H-1], any rows, consecutive gaps
\* separated by at least one non-blank row
RECURSIVE RunSeqs(_, _)
RunSeqs(H, lo) ==
    {<<>>} \cup
    UNION { { <<MkGap(s, e)>> \o rest : rest \in RunSeqs(H, e + 2) } :
            <<s, e>> \in { p \in (lo..(H - 1)) \X (lo..(H - 1)) : p[1] <= p[2] } }

SmallInputs ==
    { [gaps |-> g, H |-> H, M |-> M, mpg |-> m] :
        <<H, g>> \in UNION { {HH} \X RunSeqs(HH, 0) : HH \in 0..MaxSmallHeight },
        M \in SmallBudgets, m \in SmallPanelGapMinima }

\* grid pages with at most two gaps
SparseGridInputs ==
    { [gaps |-> g, H |-> H, M |-> M, mpg |-> m] :
        <<H, g>> \in UNION { {HH} \X GapSeqs(HH, 0, 2) : HH \in GridHeights },
        M \in GridBudgets, m \in PanelGapMinima }

\* the inputs of the termination check
FairInputs == SmallInputs \cup SparseGridInputs \cup MidGapInputs \cup TileInputs

\* ---- conditions of the code ----

\* line 492: while y < total_height
TileContinues_inclusive(yy, H) == yy <= H
TileContinues(yy, H) == yy < H

\* line 499: g['height'] >= min_panel_gap
IsPanelGap(g, mpg) == g.height >= mpg

\* line 503: panel_gaps[0]['start'] < 50
IsTopMargin_inclusive(pg) == pg /= <<>> /\ pg[1].start <= MarginRows
IsTopMargin(pg) == pg /= <<>> /\ pg[1].start < MarginRows

\* line 509: panel_gaps[-1]['end'] > total_height - 50
IsBottomMargin_inclusive(pg, H) == pg /= <<>> /\ Last(pg).end >= H - MarginRows
IsBottomMargin(pg, H) == pg /= <<>> /\ Last(pg).end > H - MarginRows

\* lines 499-511: the filter and the two margin trims; the values of
\* start_y, end_y and panel_gaps when the walking loop is entered
TrimResult(gaps, H, mpg) ==
    LET pg0 == SelectSeq(gaps, LAMBDA g : IsPanelGap(g, mpg))
        top == IsTopMargin(pg0)
        sy  == IF top THEN pg0[1]["end"] + 1 ELSE 0
        pg1 == IF top THEN Tail(pg0) ELSE pg0
        bot == IsBottomMargin(pg1, H)
        ey  == IF bot THEN Last(pg1).start ELSE H
        pg2 == IF bot THEN SubSeq(pg1, 1, Len(pg1) - 1) ELSE pg1
    IN  [start_y |-> sy, end_y |-> ey, panel_gaps |-> pg2]

\* line 519: target_end = min(current_pos + max_cut_height, end_y)
TargetEnd_stretched(cur, M, ey) == Min2(cur + M * StretchFactor, ey)
TargetEnd(cur, M, ey) == Min2(cur + M, ey)

\* lines 527-528: gaps of the full list with mid in (current_pos, target_end]
GapsInRange_fromCurrent(gaps, cur, te) ==
    {g \in SeqRange(gaps) : g.mid >= cur /\ g.mid <= te}
GapsInRange_panelGapsOnly(gaps, cur, te) ==
    {g \in SeqRange(gaps) : g.height >= min_panel_gap /\ g.mid > cur /\ g.mid <= te}
GapsInRange(gaps, cur, te) == {g \in SeqRange(gaps) : g.mid > cur /\ g.mid <= te}

\* lines 538-539: gaps of the full list with mid beyond target_end
GapsAfter(gaps, te) == {g \in SeqRange(gaps) : g.mid > te}

\* line 532: max(gaps_in_range, key=mid)
BestGap(S) == CHOOSE g \in S : \A h \in S : h.mid <= g.mid

\* line 543: min(gaps_after, key=mid)
NextGap(S) == CHOOSE g \in S : \A h \in S : g.mid <= h.mid

\* line 544: next_gap['mid'] - current_pos <= max_cut_height * 2
WithinStretch(g, cur, M) == g.mid - cur <= M * StretchFactor

\* ---- the state machine ----

SplitIdle ==
    /\ all_gaps = <<>> /\ total_height = 0 /\ max_cut_height = 1
    /\ min_panel_gap = 0 /\ panel_gaps = <<>> /\ start_y = 0 /\ end_y = 0
    /\ boundaries = <<>> /\ current_pos = 0 /\ y = 0 /\ split_pc = "idle"

\* the call: arguments bound, no local assigned yet
SplitInit ==
    /\ \E in \in SplitInputs :
          /\ all_gaps = in.gaps
          /\ total_height = in.H
          /\ max_cut_height = in.M
          /\ min_panel_gap = in.mpg
    /\ panel_gaps = <<>> /\ start_y = 0 /\ end_y = 0
    /\ boundaries = <<>> /\ current_pos = 0 /\ y = 0
    /\ split_pc = "entry"

\* the call on the inputs of the termination check
SplitFairInit ==
    /\ \E in \in FairInputs :
          /\ all_gaps = in.gaps
          /\ total_height = in.H
          /\ max_cut_height = in.M
          /\ min_panel_gap = in.mpg
    /\ panel_gaps = <<>> /\ start_y = 0 /\ end_y = 0
    /\ boundaries = <<>> /\ current_pos = 0 /\ y = 0
    /\ split_pc = "entry"

\* lines 488-491: no gap at all, start the fixed-height tiling
TileEntry ==
    /\ split_pc = "entry"
    /\ all_gaps = <<>>
    /\ boundaries' = <<0>>
    /\ y' = max_cut_height
    /\ split_pc' = "tile"
    /\ UNCHANGED <<all_gaps, total_height, max_cut_height, min_panel_gap,
                   panel_gaps, start_y, end_y, current_pos>>
    /\ UNCHANGED otherThanSplit

\* lines 492-494: one iteration of the tiling loop
TileStep ==
    /\ split_pc = "tile"
    /\ TileContinues(y, total_height)
    /\ boundaries' = Append(boundaries, y)
    /\ y' = y + max_cut_height
    /\ UNCHANGED <<all_gaps, total_height, max_cut_height, min_panel_gap,
                   panel_gaps, start_y, end_y, current_pos, split_pc>>
    /\ UNCHANGED otherThanSplit

\* lines 495-496: loop left, close with total_height and return
TileReturn ==
    /\ split_pc = "tile"
    /\ ~TileContinues(y, total_height)
    /\ boundaries' = Append(boundaries, total_height)
    /\ split_pc' = "done"
    /\ UNCHANGED <<all_gaps, total_height, max_cut_height, min_panel_gap,
                   panel_gaps, start_y, end_y, current_pos, y>>
    /\ UNCHANGED otherThanSplit

\* lines 498-515: filter, trim the margins, first boundary
WalkEntry ==
    /\ split_pc = "entry"
    /\ all_gaps /= <<>>
    /\ LET t == TrimResult(all_gaps, total_height, min_panel_gap) IN
          /\ panel_gaps' = t.panel_gaps
          /\ start_y' = t.start_y
          /\ end_y' = t.end_y
          /\ boundaries' = <<t.start_y>>
          /\ current_pos' = t.start_y
    /\ split_pc' = "walk"
    /\ UNCHANGED <<all_gaps, total_height, max_cut_height, min_panel_gap, y>>
    /\ UNCHANGED otherThanSplit

WalkUnchanged ==
    /\ UNCHANGED <<all_gaps, total_height, max_cut_height, min_panel_gap,
                   panel_gaps, start_y, end_y, y>>
    /\ UNCHANGED otherThanSplit

\* lines 522-524: the rest fits the budget, close at end_y and break
WalkClose ==
    /\ split_pc = "walk"
    /\ current_pos < end_y
    /\ end_y - current_pos <= max_cut_height
    /\ boundaries' = Append(boundaries, end_y)
    /\ split_pc' = "final"
    /\ UNCHANGED current_pos
    /\ WalkUnchanged

\* lines 530-535: cut at the lowest gap inside the budget
WalkInRange ==
    /\ split_pc = "walk"
    /\ current_pos < end_y
    /\ end_y - current_pos > max_cut_height
    /\ LET inr == GapsInRange(all_gaps, current_pos,
                              TargetEnd(current_pos, max_cut_height, end_y)) IN
          /\ inr /= {}
          /\ boundaries' = Append(boundaries, BestGap(inr).mid)
          /\ current_pos' = BestGap(inr).mid
    /\ UNCHANGED split_pc
    /\ WalkUnchanged

\* lines 541-548: no gap inside the budget, stretch to the next gap
WalkStretch ==
    /\ split_pc = "walk"
    /\ current_pos < end_y
    /\ end_y - current_pos > max_cut_height
    /\ LET te  == TargetEnd(current_pos, max_cut_height, end_y)
           aft == GapsAfter(all_gaps, te) IN
          /\ GapsInRange(all_gaps, current_pos, te) = {}
          /\ aft /= {}
          /\ WithinStretch(NextGap(aft), current_pos, max_cut_height)
          /\ boundaries' = Append(boundaries, NextGap(aft).mid)
          /\ current_pos' = NextGap(aft).mid
    /\ UNCHANGED split_pc
    /\ WalkUnchanged

\* lines 549-554: the next gap is too far, forced cut at the budget
WalkForce ==
    /\ split_pc = "walk"
    /\ current_pos < end_y
    /\ end_y - current_pos > max_cut_height
    /\ LET te  == TargetEnd(current_pos, max_cut_height, end_y)
           aft == GapsAfter(all_gaps, te) IN
          /\ GapsInRange(all_gaps, current_pos, te) = {}
          /\ aft /= {}
          /\ ~WithinStretch(NextGap(aft), current_pos, max_cut_height)
    /\ boundaries' = Append(boundaries, current_pos + max_cut_height)
    /\ current_pos' = current_pos + max_cut_height
    /\ UNCHANGED split_pc
    /\ WalkUnchanged

\* lines 555-559: no gap left at all, close at end_y and break
WalkNoGapLeft ==
    /\ split_pc = "walk"
    /\ current_pos < end_y
    /\ end_y - current_pos > max_cut_height
    /\ LET te == TargetEnd(current_pos, max_cut_height, end_y) IN
          /\ GapsInRange(all_gaps, current_pos, te) = {}
          /\ GapsAfter(all_gaps, te) = {}
    /\ boundaries' = Append(boundaries, end_y)
    /\ split_pc' = "final"
    /\ UNCHANGED current_pos
    /\ WalkUnchanged

\* line 517: the loop condition fails
WalkExit ==
    /\ split_pc = "walk"
    /\ ~(current_pos < end_y)
    /\ split_pc' = "final"
    /\ UNCHANGED <<boundaries, current_pos>>
    /\ WalkUnchanged

\* lines 561-565: append end_y unless it is the last boundary, return
WalkReturn ==
    /\ split_pc = "final"
    /\ boundaries' = IF Last(boundaries) /= end_y
                     THEN Append(boundaries, end_y) ELSE boundaries
    /\ split_pc' = "done"
    /\ UNCHANGED current_pos
    /\ WalkUnchanged

SplitNext ==
    \/ TileEntry \/ TileStep \/ TileReturn
    \/ WalkEntry \/ WalkClose \/ WalkInRange \/ WalkStretch \/ WalkForce
    \/ WalkNoGapLeft \/ WalkExit \/ WalkReturn

-----------------------------------------------------------------------------
(* Region classifier: TextTypeClassifier                                    *)
(*                                                                          *)
(* A text is a sequence of characters, a character a string token.  ASCII   *)
(* characters stand for themselves.  A Hangul syllable is written by its    *)
(* romanised jamo, initial+vowel[_final], the silent initial written x:     *)
(* "ku_ng" = U+CFF5, "ttu" = U+B69C, "beo_k" = U+BC85, "xyo" = U+C694,      *)
(* "neu_n" = U+B294, "xa_n" = U+C548, "hwa" = U+D654, "geu_l" = U+AE00.     *)
(* "jamo_*" are the compatibility jamo U+3131..U+314E, "note_*" the notes   *)
(* U+2669, U+266A, U+266C, "middot" is U+00B7.                              *)
(* Confidences are in hundredths: 95 is 0.95.                               *)
(***************************************************************************)

\* lines 14-35: self.sfx_dictionary
sfx_dictionary == {
    <<"!">>, <<"?">>, <<"note_quarter">>, <<"note_eighth">>,
    <<"note_beamed">>, <<"kkwa_ng">>, <<"kku_k">>, <<"kku_ng">>, <<"du_ng">>,
    <<"tta_k">>, <<"tto_k">>, <<"ttu_k">>, <<"ppa_ng">>, <<"ppeo_ng">>,
    <<"syu_k">>, <<"seu_k">>, <<"ssae_ng">>, <<"sswa">>, <<"ssu_k">>,
    <<"sseu_k">>, <<"xa_k">>, <<"xa_s">>, <<"jja_k">>, <<"cha_k">>,
    <<"che_s">>, <<"chi_s">>, <<"kwa_ng">>, <<"ku_ng">>, <<"ta_k">>,
    <<"ta_ng">>, <<"teo_k">>, <<"to_k">>, <<"tu_k">>, <<"pa_k">>,
    <<"pa_ng">>, <<"peo_k">>, <<"peo_ng">>, <<"pu_k">>, <<"heo_k">>,
    <<"heo_l">>, <<"hoe_k">>, <<"hu_k">>, <<"hwi_k">>, <<"hwi_ng">>,
    <<"heu_ng">>, <<"?", "!">>, <<"kku", "xu_k">>, <<"kki", "xi_k">>,
    <<"deo_l", "keo_ng">>, <<"du", "du_ng">>, <<"tta_l", "kka_k">>,
    <<"ttu", "beo_k">>, <<"meo_m", "chi_s">>, <<"meo_ng", "meo_ng">>,
    <<"ba_n", "jja_k">>, <<"beo_n", "jjeo_k">>, <<"bu", "reu_ng">>,
    <<"ppa", "ba_m">>, <<"ppa_ng", "ppa_ng">>, <<"ppi", "geo_k">>,
    <<"xya", "xo_ng">>, <<"xu_m", "jji_l">>, <<"xeu", "xeu_k">>,
    <<"ji_l", "kkeu_n">>, <<"jja", "ja_n">>, <<"cha_l", "ka_k">>,
    <<"cheo_l", "keo_k">>, <<"kwa", "gwa_ng">>, <<"kwa_l", "kwa_l">>,
    <<"keu", "xeu_k">>, <<"hwi", "xi_ng">>, <<".", ".", ".">>,
    <<"da", "geu", "da_k">>, <<"da_l", "geu", "ra_k">>,
    <<"deo_l", "geu", "reo_k">>, <<"tta", "geu", "da_k">>,
    <<"seu", "reu", "reu_k">>, <<"xwa", "reu", "reu">>,
    <<"xwa", "ja_ng", "cha_ng">>, <<"xu", "da_ng", "ta_ng">>,
    <<"xu", "reu", "reu">>, <<"ju", "reu", "reu_k">>, <<"ji", "ji", "ji_k">>,
    <<"jjae_ng", "geu", "ra_ng">>, <<"jji", "geu", "deo_k">>,
    <<"chi", "ji", "ji_k">>, <<"deo_l", "keo_ng", "deo_l", "keo_ng">>,
    <<"ttu", "beo_k", "ttu", "beo_k">>, <<"ta", "ba_k", "ta", "ba_k">>,
    <<"teo", "deo_l", "teo", "deo_l">>,
    <<"da", "geu", "da_k", "da", "geu", "da_k">> }

\* what str.strip() removes and the regex class \s matches
Whitespace == {" ", "\t", "\n", "\r", "\f"}

\* line 65: the class [!?~.\s] without \s; also lines 42 and 49
Punctuation == {"!", "?", "~", "."}

\* line 41: [U+3131-U+314E]
JamoConsonants ==
    { "jamo_kiyeok", "jamo_ssangkiyeok", "jamo_kiyeok_sios", "jamo_nieun",
      "jamo_nieun_cieuc", "jamo_nieun_hieuh", "jamo_tikeut",
      "jamo_ssangtikeut", "jamo_rieul", "jamo_rieul_kiyeok",
      "jamo_rieul_mieum", "jamo_rieul_pieup", "jamo_rieul_sios",
      "jamo_rieul_thieuth", "jamo_rieul_phieuph", "jamo_rieul_hieuh",
      "jamo_mieum", "jamo_pieup", "jamo_ssangpieup", "jamo_pieup_sios",
      "jamo_sios", "jamo_ssangsios", "jamo_ieung", "jamo_cieuc",
      "jamo_ssangcieuc", "jamo_chieuch", "jamo_khieukh", "jamo_thieuth",
      "jamo_phieuph", "jamo_hieuh" }

\* line 43: the musical notes
Notes == {"note_eighth", "note_beamed", "note_quarter"}

\* line 48: the particle class
Particles ==
    { "xeu_n", "neu_n", "xi", "ga", "xeu_l", "reu_l", "xe", "xui", "ro",
      "seo", "xwa", "gwa", "ra_ng", "ha", "go" }

\* line 49: the endings
Endings ==
    { "da", "xyo", "kka", "jyo", "ne", "ge", "ji", "xya", "hae", "bwa",
      "seo", "myeo_n", "go", "ni", "na", "gu_n", "geo_l" }

Digits == {"0", "1", "2", "3", "4", "5", "6", "7", "8", "9"}

\* line 57: the credit words and the characters that must follow one
CreditWords == {<<"seu", "to", "ri">>, <<"ja_k", "hwa">>, <<"geu_l">>, <<"geu", "ri_m">>}
CreditSeparators == Whitespace \cup {"middot", ":"}

\* line 58: the commerce words
CommerceWords == {<<"bae", "da_l">>, <<"ju", "mu_n">>, <<"bae", "so_ng">>}

\* line 57: Episode, matched with re.IGNORECASE
EpisodeWord == <<"e", "p", "i", "s", "o", "d", "e">>
Lower(c) ==
    CASE c = "E" -> "e" [] c = "P" -> "p" [] c = "I" -> "i" [] c = "S" -> "s"
      [] c = "O" -> "o" [] c = "D" -> "d" [] OTHER -> c

\* w occurs in t as a contiguous run
ContainsSeq(t, w) ==
    \E i \in 1..(Len(t) - Len(w) + 1) : SubSeq(t, i, i + Len(w) - 1) = w

RECURSIVE LStrip(_)
LStrip(t) == IF t /= <<>> /\ Head(t) \in Whitespace THEN LStrip(Tail(t)) ELSE t

RECURSIVE RStrip(_)
RStrip(t) ==
    IF t /= <<>> /\ Last(t) \in Whitespace
    THEN RStrip(SubSeq(t, 1, Len(t) - 1)) ELSE t

\* str.strip()
Strip(t) == RStrip(LStrip(t))

\* lines 62-65: _normalize
normalize(t) ==
    SelectSeq(Strip(t), LAMBDA c : c \notin (Punctuation \cup Whitespace))

\* ---- the five SFX patterns, lines 39-43, as re.search on the text ----

\* ^(.{1})\1{1,}$
SfxPatternRepeat1(t) ==
    /\ Len(t) >= 2
    /\ t[1] /= "\n"
    /\ \A i \in 1..Len(t) : t[i] = t[1]

\* ^(.{1,2})\1{1,}$
SfxPatternRepeat2(t) ==
    \E u \in {1, 2} :
        /\ Len(t) >= 2 * u
        /\ Len(t) % u = 0
        /\ \A i \in 1..u : t[i] /= "\n"
        /\ \A i \in 1..Len(t) : t[i] = t[((i - 1) % u) + 1]

\* ^[jamo]+$
SfxPatternJamo(t) == t /= <<>> /\ \A i \in 1..Len(t) : t[i] \in JamoConsonants

\* ^[!?~.]+$
SfxPatternPunctuation(t) == t /= <<>> /\ \A i \in 1..Len(t) : t[i] \in Punctuation

\* [notes]
SfxPatternNote(t) == \E i \in 1..Len(t) : t[i] \in Notes

\* lines 79-80: any pattern matches
SfxRegexMatch(t) ==
    \/ SfxPatternRepeat1(t) \/ SfxPatternRepeat2(t) \/ SfxPatternJamo(t)
    \/ SfxPatternPunctuation(t) \/ SfxPatternNote(t)

\* line 73: clean_text in self.sfx_dictionary
SfxDictionaryHit(clean) == clean \in sfx_dictionary

\* line 76: len(sfx) > 1 and sfx in clean_text and len(clean_text) < len(sfx) * 3
ContainmentFactor == 3
SfxContainment_anyLength(clean) ==
    \E sfx \in sfx_dictionary : Len(sfx) > 1 /\ ContainsSeq(clean, sfx)
SfxContainment(clean) ==
    \E sfx \in sfx_dictionary :
        /\ Len(sfx) > 1
        /\ ContainsSeq(clean, sfx)
        /\ Len(clean) < Len(sfx) * ContainmentFactor

\* lines 67-81: is_sfx
is_sfx_dictionaryOnly(t) ==
    /\ t /= <<>>
    /\ SfxDictionaryHit(normalize(t))
is_sfx(t) ==
    /\ t /= <<>>
    /\ \/ SfxDictionaryHit(normalize(t))
       \/ SfxContainment(normalize(t))
       \/ SfxRegexMatch(normalize(t))

\* line 48 as re.search: some character is a particle
HintParticle(t) == \E i \in 1..Len(t) : t[i] \in Particles

\* line 49 as re.search: an ending followed only by whitespace or punctuation
HintEnding(t) ==
    \E i \in 1..Len(t) :
        /\ t[i] \in Endings
        /\ \A j \in (i + 1)..Len(t) : t[j] \in (Whitespace \cup Punctuation)

\* lines 83-88: is_dialogue
is_dialogue(t) == t /= <<>> /\ (HintParticle(t) \/ HintEnding(t))

\* ---- the meta patterns, lines 56-60, as re.search on the original text ----

\* (credit word)[\s middot :]+
MetaCredit(t) ==
    \E w \in CreditWords : \E i \in 1..(Len(t) - Len(w)) :
        /\ SubSeq(t, i, i + Len(w) - 1) = w
        /\ t[i + Len(w)] \in CreditSeparators

\* \d+ followed by the character c  (\d+hwa, \d+won)
DigitsThen(t, c) == \E i \in 1..(Len(t) - 1) : t[i] \in Digits /\ t[i + 1] = c

\* je\d+hwa
MetaChapter(t) ==
    \E i \in 1..Len(t) : \E j \in (i + 2)..Len(t) :
        /\ t[i] = "je"
        /\ t[j] = "hwa"
        /\ \A k \in (i + 1)..(j - 1) : t[k] \in Digits

MetaEpisode(t) == ContainsSeq([i \in 1..Len(t) |-> Lower(t[i])], EpisodeWord)

MetaCommerce(t) == \E w \in CommerceWords : ContainsSeq(t, w)

\* lines 110-111: any meta pattern matches the original text
MetaMatch(t) ==
    \/ MetaCredit(t) \/ MetaChapter(t) \/ MetaEpisode(t)
    \/ DigitsThen(t, "hwa") \/ MetaCommerce(t) \/ DigitsThen(t, "xwo_n")

\* line 133: the laughter tokens
LaughTokens == {<<"jamo_khieukh", "jamo_khieukh">>, <<"jamo_hieuh", "jamo_hieuh">>}
HasLaughToken(clean) == \E w \in LaughTokens : ContainsSeq(clean, w)

\* lines 94-100: the verdict as constructed
InitialVerdict(t) ==
    [is_dialogue |-> FALSE, type |-> "unknown", confidence |-> 0,
     reason |-> "unknown", original |-> t]

\* line 102: not text or not text.strip()
IsBlank_noStrip(t) == t = <<>>
IsBlank(t) == t = <<>> \/ Strip(t) = <<>>

\* lines 103-105
EmptyVerdict_typeUnset(t) == [InitialVerdict(t) EXCEPT !.confidence = 100]
EmptyVerdict(t) == [InitialVerdict(t) EXCEPT !.type = "empty", !.confidence = 100]

\* lines 112-115
MetaVerdict(t) ==
    [InitialVerdict(t) EXCEPT !.type = "meta", !.reason = "meta_info",
                              !.confidence = 90]

\* lines 119-122
SfxVerdict(t) ==
    [InitialVerdict(t) EXCEPT !.type = "sfx", !.reason = "sfx_dictionary",
                              !.confidence = 95]

\* lines 125-130: inside a bubble
BubbleVerdict_hintRequired(t) ==
    IF is_dialogue(t)
    THEN [InitialVerdict(t) EXCEPT !.is_dialogue = TRUE, !.type = "dialogue",
                                   !.confidence = 80, !.reason = "bubble_default"]
    ELSE [InitialVerdict(t) EXCEPT !.type = "background_noise",
                                   !.confidence = 60, !.reason = "floating_noise"]
BubbleVerdict(t) ==
    [InitialVerdict(t) EXCEPT !.is_dialogue = TRUE, !.type = "dialogue",
                              !.confidence = 80, !.reason = "bubble_default"]

\* lines 131-144: outside any bubble
FloatingVerdict_anyLength(t) ==
    IF HasLaughToken(normalize(t))
    THEN [InitialVerdict(t) EXCEPT !.is_dialogue = TRUE, !.type = "dialogue",
                                   !.reason = "floating_laugh"]
    ELSE IF is_dialogue(t)
    THEN [InitialVerdict(t) EXCEPT !.is_dialogue = TRUE, !.type = "dialogue",
                                   !.reason = "floating_structure"]
    ELSE [InitialVerdict(t) EXCEPT !.type = "background_noise",
                                   !.confidence = 60, !.reason = "floating_noise"]
FloatingVerdict(t) ==
    IF HasLaughToken(normalize(t))
    THEN [InitialVerdict(t) EXCEPT !.is_dialogue = TRUE, !.type = "dialogue",
                                   !.reason = "floating_laugh"]
    ELSE IF is_dialogue(t) /\ Len(normalize(t)) > 1
    THEN [InitialVerdict(t) EXCEPT !.is_dialogue = TRUE, !.type = "dialogue",
                                   !.reason = "floating_structure"]
    ELSE [InitialVerdict(t) EXCEPT !.type = "background_noise",
                                   !.confidence = 60, !.reason = "floating_noise"]

\* lines 90-146: classify
classify_sfxBeforeMeta(t, in_bubble) ==
    IF IsBlank(t) THEN EmptyVerdict(t)
    ELSE IF is_sfx(t) THEN SfxVerdict(t)
    ELSE IF MetaMatch(t) THEN MetaVerdict(t)
    ELSE IF in_bubble THEN BubbleVerdict(t)
    ELSE FloatingVerdict(t)
classify(t, in_bubble) ==
    IF IsBlank(t) THEN EmptyVerdict(t)
    ELSE IF MetaMatch(t) THEN MetaVerdict(t)
    ELSE IF is_sfx(t) THEN SfxVerdict(t)
    ELSE IF in_bubble THEN BubbleVerdict(t)
    ELSE FloatingVerdict(t)

\* ---- bounds of the checked inputs ----
MaxShortLen == 3   \* longest text over the whole alphabet
MaxLongLen == 6    \* longest text over the core alphabet

\* one or two characters of every class the patterns tell apart
Alphabet ==
    { " ", "!", "ku_ng", "ttu", "beo_k", "jamo_khieukh", "note_eighth",
      "xyo", "neu_n", "xa_n", "1", "hwa" }

\* the characters of a two-character dictionary entry, an ending and a
\* character of no class
CoreAlphabet == { "ttu", "beo_k", "xyo", "hwa" }

Texts ==
    (UNION { [1..n -> Alphabet] : n \in 0..MaxShortLen })
    \cup (UNION { [1..n -> CoreAlphabet] : n \in 0..MaxLongLen })

\* ---- the state machine: one call of classify ----

ClsIdle ==
    /\ cls_text = <<>> /\ cls_is_in_bubble = TRUE
    /\ cls_result = InitialVerdict(<<>>) /\ cls_pc = "idle"

\* the call: arguments bound, result as constructed at lines 94-100
ClsInit ==
    /\ cls_text \in Texts
    /\ cls_is_in_bubble \in BOOLEAN
    /\ cls_result = InitialVerdict(cls_text)
    /\ cls_pc = "call"

\* lines 102-146: the body up to the return
ClassifyReturn ==
    /\ cls_pc = "call"
    /\ cls_result' = classify(cls_text, cls_is_in_bubble)
    /\ cls_pc' = "returned"
    /\ UNCHANGED <<cls_text, cls_is_in_bubble>>
    /\ UNCHANGED otherThanCls

ClsNext == ClassifyReturn

-----------------------------------------------------------------------------
(* Panel verdict aggregator: WebtoonBubbleProcessor.process                 *)
(*                                                                          *)
(* The image, the detector and the recogniser are the environment: whether  *)
(* the image can be read, how many bubbles are found and what each          *)
(* recognition returns are choices of the actions.  A bubble is its index   *)
(* in the detection order; its box and confidence are not modelled.         *)
(***************************************************************************)

\* ---- bounds of the checked inputs ----
MaxBubbles == 2    \* most bubbles the detector returns
MaxFloating == 2   \* most entries image_to_data returns

\* line 171: entries recognised with less confidence are dropped
FloatingMinConf == 40

\* texts the recogniser returns: an SFX, a chapter marker, a sentence that is
\* dialogue everywhere, and a word that is dialogue only inside a bubble
OcrTexts ==
    { <<"ku_ng", "ku_ng">>, <<"1", "hwa">>, <<"xa_n", "neu_n", "xyo">>,
      <<"xa_n", "hwa">> }

\* lines 121-143: _extract_text_ocr returns the stripped text, "" when
\* recognition is unavailable, finds nothing or fails
BubbleOcrResults == IF ocr_available THEN OcrTexts \cup {<<>>} ELSE {<<>>}

\* line 161: the entries of image_to_data, text and confidence
FloatingEntries ==
    { [text |-> t, conf |-> c] :
        t \in OcrTexts, c \in {FloatingMinConf - 1, FloatingMinConf} }
    \cup { [text |-> <<" ">>, conf |-> -1] }

FloatingData == UNION { [1..n -> FloatingEntries] : n \in 0..MaxFloating }

\* line 238: the verdict of a text read inside a bubble
BubbleClassification(t) ==
    IF has_classifier THEN classify(t, TRUE)
    ELSE [is_dialogue |-> TRUE, type |-> "dialogue"]

\* line 176: the verdict of a text read outside the bubbles
FloatingClassification(t) ==
    IF has_classifier THEN classify(t, FALSE)
    ELSE [is_dialogue |-> TRUE]

\* lines 163-185: the loop of _scan_floating_text over the entries from i on
RECURSIVE FloatingCandidates(_, _)
FloatingCandidates(data, i) ==
    IF i > Len(data) THEN <<>>
    ELSE LET text == Strip(data[i].text)
             cls_res == FloatingClassification(text)
             keep == /\ text /= <<>>
                     /\ ~(data[i].conf < FloatingMinConf)
                     /\ cls_res.is_dialogue
         IN  (IF keep
              THEN <<[text |-> text, bbox |-> i, confidence |-> data[i].conf,
                      classification |-> cls_res]>>
              ELSE <<>>) \o FloatingCandidates(data, i + 1)

\* lines 149 and 159-161: what _scan_floating_text reads.  Without the
\* recogniser it returns at line 149, and when image_to_data raises it
\* returns [] at line 189: in both cases no entry was read.
ScanData == IF ~ocr_available THEN {<<>>} ELSE FloatingData

\* line 248: any(t['classification']['is_dialogue'] for t in detected_texts)
HasClearDialogue(texts) == \E i \in 1..Len(texts) : texts[i].classification.is_dialogue

\* line 250: not has_clear_dialogue or len(bubbles) == 0
ShouldScanFloating_always(texts, bs) == TRUE
ShouldScanFloating(texts, bs) == ~HasClearDialogue(texts) \/ Len(bs) = 0

\* lines 258-260: the three tallies
DialogueCount(texts) ==
    Cardinality({i \in 1..Len(texts) : texts[i].classification.is_dialogue})
SfxCount_everyText(texts) == Len(texts)
SfxCount(texts) ==
    Cardinality({i \in 1..Len(texts) : texts[i].classification.type = "sfx"})
MetaCount(texts) ==
    Cardinality({i \in 1..Len(texts) : texts[i].classification.type = "meta"})

\* lines 259-260 raise KeyError on a verdict without the key 'type'
TallyRaises(texts) ==
    \E i \in 1..Len(texts) : "type" \notin DOMAIN texts[i].classification

\* lines 272-281: the action
DecideAction_bubbleSkipped(has_dialogue, sfx_count, has_bubble) ==
    IF has_dialogue THEN "process"
    ELSE IF sfx_count > 0 THEN "skip_sfx_only"
    ELSE "skip_no_bubble"
DecideAction(has_dialogue, sfx_count, has_bubble) ==
    IF has_dialogue THEN "process"
    ELSE IF sfx_count > 0 THEN "skip_sfx_only"
    ELSE IF has_bubble THEN "process"
    ELSE "skip_no_bubble"

\* lines 196-211: the result as constructed
InitialResult ==
    [action |-> "process", has_bubble |-> FALSE, has_dialogue |-> FALSE,
     bubble_count |-> 0, detection_method |-> "none",
     text_analysis |-> [dialogue_count |-> 0, sfx_count |-> 0, meta_count |-> 0,
                        total |-> 0, texts |-> <<>>]]

\* ---- the state machine ----

ProcIdle ==
    /\ use_ocr = FALSE /\ ocr_available = FALSE /\ yolo_available = FALSE
    /\ has_classifier = FALSE /\ img = "unset" /\ bubbles = <<>> /\ bubble_idx = 0
    /\ detected_texts = <<>> /\ scan_calls = 0 /\ floating_data = <<>>
    /\ result = InitialResult
    /\ proc_pc = "idle"

\* a constructed processor (lines 33-57) and the call of process
ProcInit ==
    /\ use_ocr \in BOOLEAN
    /\ ocr_available \in BOOLEAN
    /\ ocr_available => use_ocr
    /\ yolo_available \in BOOLEAN
    /\ has_classifier \in BOOLEAN
    /\ img = "unset"
    /\ bubbles = <<>> /\ bubble_idx = 0 /\ detected_texts = <<>>
    /\ scan_calls = 0 /\ floating_data = <<>>
    /\ result = InitialResult
    /\ proc_pc = "call"

ProcConfig == <<use_ocr, ocr_available, yolo_available, has_classifier>>

\* the configuration and the loaded image
ProcFixed == <<ProcConfig, img>>

\* lines 214-217: the image cannot be read
LoadFails ==
    /\ proc_pc = "call"
    /\ img' = "None"
    /\ result' = [result EXCEPT !.action = "error"]
    /\ proc_pc' = "done"
    /\ UNCHANGED <<ProcConfig, bubbles, bubble_idx, detected_texts, scan_calls,
                   floating_data>>
    /\ UNCHANGED otherThanProc

\* lines 214-218: the image is read
LoadImage ==
    /\ proc_pc = "call"
    /\ img' = "array"
    /\ proc_pc' = "detect"
    /\ UNCHANGED <<ProcConfig, bubbles, bubble_idx, detected_texts, scan_calls,
                   floating_data, result>>
    /\ UNCHANGED otherThanProc

\* lines 221-230: detection, and the bubble fields of the result
DetectBubbles ==
    /\ proc_pc = "detect"
    /\ \E n \in 0..MaxBubbles :
          /\ ~yolo_available => n = 0
          /\ bubbles' = [i \in 1..n |-> i]
          /\ result' = IF n > 0
                       THEN [result EXCEPT !.has_bubble = TRUE,
                                           !.bubble_count = n,
                                           !.detection_method = "yolo"]
                       ELSE result
          /\ proc_pc' = IF n > 0 /\ use_ocr THEN "bubbles" ELSE "floating"
    /\ UNCHANGED <<ProcFixed, bubble_idx, detected_texts, scan_calls,
                   floating_data>>
    /\ UNCHANGED otherThanProc

\* line 107: the detector raises, process does not catch it
DetectRaises ==
    /\ proc_pc = "detect"
    /\ yolo_available
    /\ proc_pc' = "raised"
    /\ UNCHANGED <<ProcFixed, bubbles, bubble_idx, detected_texts, scan_calls,
                   floating_data, result>>
    /\ UNCHANGED otherThanProc

\* lines 233-235: one bubble, nothing recognised in it
BubbleWithoutText ==
    /\ proc_pc = "bubbles"
    /\ bubble_idx < Len(bubbles)
    /\ <<>> \in BubbleOcrResults
    /\ bubble_idx' = bubble_idx + 1
    /\ proc_pc' = IF bubble_idx + 1 = Len(bubbles) THEN "floating" ELSE "bubbles"
    /\ UNCHANGED <<ProcFixed, bubbles, detected_texts, scan_calls,
                   floating_data, result>>
    /\ UNCHANGED otherThanProc

\* lines 233-244: one bubble, its text recognised and classified
BubbleWithText ==
    /\ proc_pc = "bubbles"
    /\ bubble_idx < Len(bubbles)
    /\ \E text \in BubbleOcrResults \ {<<>>} :
          detected_texts' =
              Append(detected_texts,
                     [text |-> text, bbox |-> bubbles[bubble_idx + 1],
                      classification |-> BubbleClassification(text)])
    /\ bubble_idx' = bubble_idx + 1
    /\ proc_pc' = IF bubble_idx + 1 = Len(bubbles) THEN "floating" ELSE "bubbles"
    /\ UNCHANGED <<ProcFixed, bubbles, scan_calls, floating_data, result>>
    /\ UNCHANGED otherThanProc

\* lines 248-255: the floating scan is called
FloatingScan ==
    /\ proc_pc = "floating"
    /\ ShouldScanFloating(detected_texts, bubbles)
    /\ scan_calls' = scan_calls + 1
    /\ \E data \in ScanData :
          LET floating_texts == FloatingCandidates(data, 1) IN
          /\ floating_data' = data
          /\ detected_texts' = detected_texts \o floating_texts
          /\ result' = IF floating_texts /= <<>> /\ ~result.has_bubble
                       THEN [result EXCEPT !.detection_method = "ocr_floating"]
                       ELSE result
    /\ proc_pc' = "tally"
    /\ UNCHANGED <<ProcFixed, bubbles, bubble_idx>>
    /\ UNCHANGED otherThanProc

\* line 250: the condition fails, no scan
FloatingSkipped ==
    /\ proc_pc = "floating"
    /\ ~ShouldScanFloating(detected_texts, bubbles)
    /\ proc_pc' = "tally"
    /\ UNCHANGED <<ProcFixed, bubbles, bubble_idx, detected_texts, scan_calls,
                   floating_data, result>>
    /\ UNCHANGED otherThanProc

\* lines 258-260: a verdict has no 'type', the tally raises KeyError
TallyKeyError ==
    /\ proc_pc = "tally"
    /\ TallyRaises(detected_texts)
    /\ proc_pc' = "raised"
    /\ UNCHANGED <<ProcFixed, bubbles, bubble_idx, detected_texts, scan_calls,
                   floating_data, result>>
    /\ UNCHANGED otherThanProc

\* lines 258-283: tallies, action, return
TallyAndReturn ==
    /\ proc_pc = "tally"
    /\ ~TallyRaises(detected_texts)
    /\ LET dialogue_count == DialogueCount(detected_texts)
           sfx_count == SfxCount(detected_texts)
           meta_count == MetaCount(detected_texts)
       IN  result' =
             [result EXCEPT
                !.has_dialogue = dialogue_count > 0,
                !.text_analysis =
                    [dialogue_count |-> dialogue_count, sfx_count |-> sfx_count,
                     meta_count |-> meta_count, total |-> Len(detected_texts),
                     texts |-> detected_texts],
                !.action = DecideAction(dialogue_count > 0, sfx_count,
                                        result.has_bubble)]
    /\ proc_pc' = "done"
    /\ UNCHANGED <<ProcFixed, bubbles, bubble_idx, detected_texts, scan_calls,
                   floating_data>>
    /\ UNCHANGED otherThanProc

ProcNext ==
    \/ LoadFails \/ LoadImage \/ DetectBubbles \/ DetectRaises
    \/ BubbleWithoutText \/ BubbleWithText
    \/ FloatingScan \/ FloatingSkipped
    \/ TallyKeyError \/ TallyAndReturn


-----------------------------------------------------------------------------
(* Selective edit dispatch:                                                 *)
(* WebtoonPipelineGoogle.remove_speech_bubbles_selective                    *)
(*                                                                          *)
(* A file name is a sequence of tokens, the stem of a cut as written by     *)
(* split_into_cuts (line 390) followed by ".png".  The content of a file is *)
(* a record: the original picture of a cut or the picture the edit service  *)
(* returned for it.  The edit service and the file system are the           *)
(* environment.                                                             *)
(***************************************************************************)

\* ---- bounds of the checked inputs ----
MaxFiles == 2      \* most cut files named by the classification

\* line 847: max_retries
MaxRetries == 3

\* the delays of the app's selector (webtoon_pipeline_app.py line 1053)
Delays == {0, 1, 2}

AllStems == <<"p_cut_01", "p_cut_02", "p_cut_03", "p_cut_04">>

\* line 390: the names of the cuts, in the sorted order of line 631
AllNames == [i \in 1..Min2(MaxFiles, Len(AllStems)) |-> <<AllStems[i], ".png">>]

SkipCategories == {"skip_sfx_only", "skip_no_bubble", "skip_no_text"}

\* the classifications: every file under at most one skip category, as
\* analyze_cuts_for_bubble files it (lines 695-714), and under process or not
Classifications ==
    { [process        |-> SelectSeq(AllNames, LAMBDA n : n \in P),
       skip_sfx_only  |-> SelectSeq(AllNames, LAMBDA n : n \in DOMAIN c
                                                  /\ c[n] = "skip_sfx_only"),
       skip_no_bubble |-> SelectSeq(AllNames, LAMBDA n : n \in DOMAIN c
                                                  /\ c[n] = "skip_no_bubble"),
       skip_no_text   |-> SelectSeq(AllNames, LAMBDA n : n \in DOMAIN c
                                                  /\ c[n] = "skip_no_text")] :
        P \in SUBSET SeqRange(AllNames),
        c \in UNION { [S -> SkipCategories] : S \in SUBSET SeqRange(AllNames) } }

\* line 1036: api_targets
ApiTargets_everyFile(c) ==
    c.process \o c.skip_sfx_only \o c.skip_no_bubble \o c.skip_no_text
ApiTargets(c) == c.process

\* lines 1037-1040: skip_all
SkipAll(c) == c.skip_sfx_only \o c.skip_no_bubble \o c.skip_no_text

\* lines 1054, 932 and 976: name.replace('.png', '_nobubble.png')
OutName(name) ==
    [i \in 1..Len(name) |-> IF name[i] = ".png" THEN "_nobubble.png" ELSE name[i]]

\* the picture stored in the cut file, and the picture the service returns
Original(name) == [kind |-> "original", of |-> name]
Edited(name) == [kind |-> "edited", of |-> name]

\* lines 1057, 934 and 978: the file dst of output_dir is (over)written
WriteFile(dir, dst, content) == (dst :> content) @@ dir

\* lines 849-876: the file is sent once per attempt
Requests(name, attempts) == [i \in 1..attempts |-> name]

\* ---- the state machine ----

SelIdle ==
    /\ classification = [process |-> <<>>, skip_sfx_only |-> <<>>,
                         skip_no_bubble |-> <<>>, skip_no_text |-> <<>>]
    /\ cuts_dir = {} /\ delay = 0 /\ slept = <<>>
    /\ output_dir = <<>> /\ api_requests = <<>>
    /\ stats = [api_skipped |-> 0, api_calls |-> 0, bubbles_removed |-> 0]
    /\ results = <<>> /\ current = 0 /\ sel_pc = "idle"

\* the call on a fresh pipeline (line 154) and an empty output directory
SelInit ==
    /\ classification \in Classifications
    /\ cuts_dir \in SUBSET SeqRange(AllNames)
    /\ delay \in Delays
    /\ slept = <<>>
    /\ output_dir = <<>> /\ api_requests = <<>>
    /\ stats = [api_skipped |-> 0, api_calls |-> 0, bubbles_removed |-> 0]
    /\ results = <<>> /\ current = 0 /\ sel_pc = "skip"

SelInputs == <<classification, cuts_dir, delay>>

\* lines 993-994: the wait after cut i of n cut files
SleepsAfter(i, n, d) == i < n /\ d > 0

\* line 1087: the delay handed to remove_speech_bubbles for api_files[idx]
DelayPassed(idx, n, d) == IF idx < n - 1 THEN d ELSE 0

\* lines 1084-1088 and 993-994: the call for the file at index idx of the n
\* api_files is a call on a list of one cut file
SleptAfterEdit(log, name, idx, n, d) ==
    IF SleepsAfter(1, 1, DelayPassed(idx, n, d))
    THEN Append(log, [after |-> name, seconds |-> DelayPassed(idx, n, d)])
    ELSE log


\* the file visited by the copy loop, and by the edit loop
SkipFile == SkipAll(classification)[current + 1]
ApiFile == ApiTargets(classification)[current - Len(SkipAll(classification)) + 1]

\* lines 1051-1069: a skipped file that exists is copied to output_dir
CopySkipped ==
    /\ sel_pc = "skip"
    /\ current < Len(SkipAll(classification))
    /\ SkipFile \in cuts_dir
    /\ output_dir' = WriteFile(output_dir, OutName(SkipFile), Original(SkipFile))
    /\ results' = Append(results, [input |-> SkipFile, output |-> OutName(SkipFile),
                                   success |-> TRUE, action |-> "copy"])
    /\ stats' = [stats EXCEPT !.api_skipped = @ + 1]
    /\ current' = current + 1
    /\ UNCHANGED <<SelInputs, slept, api_requests, sel_pc>>
    /\ UNCHANGED otherThanSel

\* lines 1051-1056: a skipped file that does not exist is passed over
SkipMissing ==
    /\ sel_pc = "skip"
    /\ current < Len(SkipAll(classification))
    /\ SkipFile \notin cuts_dir
    /\ current' = current + 1
    /\ UNCHANGED <<SelInputs, slept, output_dir, api_requests, stats, results, sel_pc>>
    /\ UNCHANGED otherThanSel

\* line 1051: the copy loop is over
CopyLoopEnds ==
    /\ sel_pc = "skip"
    /\ ~(current < Len(SkipAll(classification)))
    /\ sel_pc' = "api"
    /\ UNCHANGED <<SelInputs, slept, output_dir, api_requests, stats, results, current>>
    /\ UNCHANGED otherThanSel

\* the edit loop visits a file
ApiLoopAt ==
    /\ sel_pc = "api"
    /\ current < Len(SkipAll(classification)) + Len(ApiTargets(classification))

\* lines 1075-1088 and 836: the file cannot be opened, nothing is sent
EditUnreadable ==
    /\ ApiLoopAt
    /\ ApiFile \notin cuts_dir
    /\ results' = Append(results, [input |-> ApiFile, output |-> <<>>,
                                   success |-> FALSE])
    /\ current' = current + 1
    /\ UNCHANGED <<SelInputs, slept, output_dir, api_requests, stats, sel_pc>>
    /\ UNCHANGED otherThanSel

\* lines 849-866 and 973-994: the service returns a picture, it is saved
EditSaved ==
    /\ ApiLoopAt
    /\ ApiFile \in cuts_dir
    /\ \E attempts \in 1..MaxRetries :
          api_requests' = api_requests \o Requests(ApiFile, attempts)
    /\ output_dir' = WriteFile(output_dir, OutName(ApiFile), Edited(ApiFile))
    /\ results' = Append(results, [input |-> ApiFile, output |-> OutName(ApiFile),
                                   success |-> TRUE])
    /\ stats' = [stats EXCEPT !.api_calls = @ + 1, !.bubbles_removed = @ + 1]
    /\ slept' = SleptAfterEdit(slept, ApiFile, current - Len(SkipAll(classification)),
                               Len(ApiTargets(classification)), delay)
    /\ current' = current + 1
    /\ UNCHANGED <<SelInputs, sel_pc>>
    /\ UNCHANGED otherThanSel

\* lines 924-944: the service declines, the original is copied
EditDeclined ==
    /\ ApiLoopAt
    /\ ApiFile \in cuts_dir
    /\ \E attempts \in 1..MaxRetries :
          api_requests' = api_requests \o Requests(ApiFile, attempts)
    /\ output_dir' = WriteFile(output_dir, OutName(ApiFile), Original(ApiFile))
    /\ results' = Append(results, [input |-> ApiFile, output |-> OutName(ApiFile),
                                   success |-> TRUE, note |-> "original_copy"])
    /\ current' = current + 1
    /\ UNCHANGED <<SelInputs, slept, stats, sel_pc>>
    /\ UNCHANGED otherThanSel

\* lines 867-879, 973-974 and 996-1005: every attempt fails or the response
\* holds no picture
EditFails ==
    /\ ApiLoopAt
    /\ ApiFile \in cuts_dir
    /\ \E attempts \in 1..MaxRetries :
          api_requests' = api_requests \o Requests(ApiFile, attempts)
    /\ results' = Append(results, [input |-> ApiFile, output |-> <<>>,
                                   success |-> FALSE])
    /\ current' = current + 1
    /\ UNCHANGED <<SelInputs, slept, output_dir, stats, sel_pc>>
    /\ UNCHANGED otherThanSel

\* lines 1098-1106: both loops are over, return results
SelReturn ==
    /\ sel_pc = "api"
    /\ ~ApiLoopAt
    /\ sel_pc' = "done"
    /\ UNCHANGED <<SelInputs, slept, output_dir, api_requests, stats, results, current>>
    /\ UNCHANGED otherThanSel

SelNext ==
    \/ CopySkipped \/ SkipMissing \/ CopyLoopEnds
    \/ EditUnreadable \/ EditSaved \/ EditDeclined \/ EditFails
    \/ SelReturn

-----------------------------------------------------------------------------
(* Gap detection: WebtoonPipelineGoogle._detect_gaps_for_ratio              *)
(*                                                                          *)
(* The page is given by is_gap, the blank / non-blank classification of its *)
(* rows computed at lines 422-430; the pixel statistics are not modelled.   *)
(***************************************************************************)

\* ---- bounds of the checked inputs ----
MaxRows == 7       \* tallest page
MinGapHeights == {1, 2, 3}

RowClassifications == UNION { [1..H -> BOOLEAN] : H \in 0..MaxRows }

\* lines 443 and 458: gap_height >= min_height
IsTallEnough_strict(gap_height, mh) == gap_height > mh
IsTallEnough(gap_height, mh) == gap_height >= mh

DetIdle ==
    /\ is_gap = <<>> /\ min_height = 0 /\ det_gaps = <<>> /\ in_gap = FALSE
    /\ gap_start = 0 /\ det_i = 0 /\ det_pc = "idle"

\* lines 433-435: the locals before the loop
DetInit ==
    /\ is_gap \in RowClassifications
    /\ min_height \in MinGapHeights
    /\ det_gaps = <<>> /\ in_gap = FALSE /\ gap_start = 0 /\ det_i = 0
    /\ det_pc = "rows"

DetInputs == <<is_gap, min_height>>

\* line 437: the loop visits row det_i
AtRow == det_pc = "rows" /\ det_i < Len(is_gap)

\* lines 438-440: a blank row after a non-blank one opens a run
GapOpens ==
    /\ AtRow
    /\ is_gap[det_i + 1] /\ ~in_gap
    /\ gap_start' = det_i
    /\ in_gap' = TRUE
    /\ det_i' = det_i + 1
    /\ UNCHANGED <<DetInputs, det_gaps, det_pc>>
    /\ UNCHANGED otherThanDet

\* lines 441-453: a non-blank row closes a run that is tall enough
GapClosesKept ==
    /\ AtRow
    /\ ~is_gap[det_i + 1] /\ in_gap
    /\ IsTallEnough(det_i - gap_start, min_height)
    /\ det_gaps' = Append(det_gaps, MkGap(gap_start, det_i - 1))
    /\ in_gap' = FALSE
    /\ det_i' = det_i + 1
    /\ UNCHANGED <<DetInputs, gap_start, det_pc>>
    /\ UNCHANGED otherThanDet

\* lines 441-453: a non-blank row closes a run that is too short
GapClosesDropped ==
    /\ AtRow
    /\ ~is_gap[det_i + 1] /\ in_gap
    /\ ~IsTallEnough(det_i - gap_start, min_height)
    /\ in_gap' = FALSE
    /\ det_i' = det_i + 1
    /\ UNCHANGED <<DetInputs, det_gaps, gap_start, det_pc>>
    /\ UNCHANGED otherThanDet

\* lines 437-441: a row that neither opens nor closes a run
RowPassed ==
    /\ AtRow
    /\ is_gap[det_i + 1] = in_gap
    /\ det_i' = det_i + 1
    /\ UNCHANGED <<DetInputs, det_gaps, in_gap, gap_start, det_pc>>
    /\ UNCHANGED otherThanDet

\* lines 456-467: the run open at the last row is emitted if tall enough,
\* and the list is returned
DetReturn ==
    /\ det_pc = "rows"
    /\ ~(det_i < Len(is_gap))
    /\ det_gaps' =
          IF in_gap /\ IsTallEnough(Len(is_gap) - gap_start, min_height)
          THEN Append(det_gaps, MkGap(gap_start, Len(is_gap) - 1))
          ELSE det_gaps
    /\ det_pc' = "done"
    /\ UNCHANGED <<DetInputs, in_gap, gap_start, det_i>>
    /\ UNCHANGED otherThanDet

DetNext ==
    \/ GapOpens \/ GapClosesKept \/ GapClosesDropped \/ RowPassed \/ DetReturn

-----------------------------------------------------------------------------
(* Saving the cuts: WebtoonPipelineGoogle.split_into_cuts, lines 345-407    *)
(*                                                                          *)
(* A page is given by whether it can be opened and by the boundaries        *)
(* _split_by_ratio returns for it.  A written file is a record: the page,   *)
(* the number in its name and the rows cropped.  crop and save succeed.     *)
(***************************************************************************)

\* ---- bounds of the checked inputs ----
MaxBoundaries == 4    \* longest boundary list of a page

\* two pages per call
PageIndices == {1, 2}

\* line 385: spans below 30 rows are skipped
MinCutRows == 30

BoundaryRows == {0, 29, 30, 59, 100}

\* the lists _split_by_ratio returns: strictly increasing, except that the
\* last boundary may lie below the one before it
BoundaryLists ==
    { b \in UNION { [1..n -> BoundaryRows] : n \in 1..MaxBoundaries } :
        /\ \A k \in 1..(Len(b) - 2) : b[k] < b[k + 1]
        /\ Len(b) >= 2 => b[Len(b) - 1] /= b[Len(b)] }

Pages ==
    { [readable |-> TRUE, boundaries |-> b] : b \in BoundaryLists }
    \cup { [readable |-> FALSE, boundaries |-> <<0>>] }

\* line 385: cut_height < 30
IsTooSmall_inclusive(cut_height) == cut_height <= MinCutRows
IsTooSmall(cut_height) == cut_height < MinCutRows

\* lines 388-393: the file <page_stem>_cut_<number>.png and what it holds
CutFile(page, number, top, bottom) ==
    [page |-> page, number |-> number, start_y |-> top, end_y |-> bottom]

CutIdle ==
    /\ png_files = <<>> /\ file_idx = 0 /\ cuts_boundaries = <<>> /\ cut_i = 0
    /\ cuts_saved = 0 /\ all_cuts = <<>> /\ cuts_total = 0 /\ cut_pc = "idle"

\* line 345: the call, all_cuts empty
CutInit ==
    /\ png_files \in [PageIndices -> Pages]
    /\ file_idx = 0 /\ cuts_boundaries = <<>> /\ cut_i = 0
    /\ cuts_saved = 0 /\ all_cuts = <<>> /\ cuts_total = 0 /\ cut_pc = "page"

\* lines 347-378: the next page opens, its boundaries are computed
PageOpens ==
    /\ cut_pc = "page"
    /\ file_idx < Len(png_files)
    /\ png_files[file_idx + 1].readable
    /\ cuts_boundaries' = png_files[file_idx + 1].boundaries
    /\ cut_i' = 0
    /\ cuts_saved' = 0
    /\ cut_pc' = "pairs"
    /\ UNCHANGED <<png_files, file_idx, all_cuts, cuts_total>>
    /\ UNCHANGED otherThanCut

\* lines 351-352 and 400-402: the page cannot be opened, it is passed over
PageFails ==
    /\ cut_pc = "page"
    /\ file_idx < Len(png_files)
    /\ ~png_files[file_idx + 1].readable
    /\ file_idx' = file_idx + 1
    /\ UNCHANGED <<png_files, cuts_boundaries, cut_i, cuts_saved, all_cuts,
                   cuts_total, cut_pc>>
    /\ UNCHANGED otherThanCut

\* line 380: the loop visits the pair cut_i, cut_i + 1
AtPair == cut_pc = "pairs" /\ cut_i < Len(cuts_boundaries) - 1

\* lines 381-386: the span is too small, nothing is written
CutSkipped ==
    /\ AtPair
    /\ IsTooSmall(cuts_boundaries[cut_i + 2] - cuts_boundaries[cut_i + 1])
    /\ cut_i' = cut_i + 1
    /\ UNCHANGED <<png_files, file_idx, cuts_boundaries, cuts_saved, all_cuts,
                   cuts_total, cut_pc>>
    /\ UNCHANGED otherThanCut

\* lines 381-393: the span is cropped and written under the next number
CutSaved ==
    /\ AtPair
    /\ ~IsTooSmall(cuts_boundaries[cut_i + 2] - cuts_boundaries[cut_i + 1])
    /\ cuts_saved' = cuts_saved + 1
    /\ all_cuts' = Append(all_cuts,
                          CutFile(file_idx + 1, cuts_saved + 1,
                                  cuts_boundaries[cut_i + 1],
                                  cuts_boundaries[cut_i + 2]))
    /\ cut_i' = cut_i + 1
    /\ UNCHANGED <<png_files, file_idx, cuts_boundaries, cuts_total, cut_pc>>
    /\ UNCHANGED otherThanCut

\* lines 380 and 398: the pairs of the page are done
PageDone ==
    /\ cut_pc = "pairs"
    /\ ~(cut_i < Len(cuts_boundaries) - 1)
    /\ file_idx' = file_idx + 1
    /\ cut_pc' = "page"
    /\ UNCHANGED <<png_files, cuts_boundaries, cut_i, cuts_saved, all_cuts,
                   cuts_total>>
    /\ UNCHANGED otherThanCut

\* lines 404-407: every page visited, cuts_total is set, all_cuts returned
CutReturn ==
    /\ cut_pc = "page"
    /\ ~(file_idx < Len(png_files))
    /\ cuts_total' = Len(all_cuts)
    /\ cut_pc' = "done"
    /\ UNCHANGED <<png_files, file_idx, cuts_boundaries, cut_i, cuts_saved,
                   all_cuts>>
    /\ UNCHANGED otherThanCut

CutNext ==
    \/ PageOpens \/ PageFails \/ CutSkipped \/ CutSaved \/ PageDone \/ CutReturn

-----------------------------------------------------------------------------
(* Pre-classification: WebtoonPipelineGoogle.analyze_cuts_for_bubble        *)
(*                                                                          *)
(* bubble_processor.process is given by its outcome for each cut: the       *)
(* action of the verdict it returns (webtoon_bubble_processor.py lines 197, *)
(* 216, 273-281), or "raises" when it raises.                               *)
(***************************************************************************)

\* ---- bounds of the checked inputs ----
MaxCuts == 3       \* most cut files in cuts_dir

\* what process does with a cut
ProcessOutcomes == {"process", "skip_sfx_only", "skip_no_bubble", "error", "raises"}

\* line 631: sorted(cuts_dir.glob("*.png"))
CutFileLists ==
    { [i \in 1..n |-> <<AllStems[i], ".png">>] : n \in 0..Min2(MaxCuts, Len(AllStems)) }

\* lines 667-674: the empty result
EmptyAnalysis ==
    [process |-> <<>>, skip_sfx_only |-> <<>>, skip_no_bubble |-> <<>>,
     skip_no_text |-> <<>>, details |-> <<>>, stats |-> <<>>]

\* lines 695-714: the list a verdict's action files the cut under
ListOfAction_otherSkipped(action) ==
    IF action \in {"process", "skip_sfx_only", "skip_no_bubble", "skip_no_text"}
    THEN action ELSE "skip_no_bubble"
ListOfAction(action) ==
    IF action = "process" THEN "process"
    ELSE IF action = "skip_sfx_only" THEN "skip_sfx_only"
    ELSE IF action = "skip_no_bubble" THEN "skip_no_bubble"
    ELSE IF action = "skip_no_text" THEN "skip_no_text"
    ELSE "process"

\* lines 729-744: the counts of the result
AnalysisStats(r, total) ==
    [total |-> total, to_process |-> Len(r.process),
     skip_sfx_only |-> Len(r.skip_sfx_only),
     skip_no_bubble |-> Len(r.skip_no_bubble),
     skip_no_text |-> Len(r.skip_no_text)]

AnIdle ==
    /\ cut_files = <<>> /\ processor_ready = FALSE /\ outcomes = <<>>
    /\ an_idx = 0 /\ an_result = EmptyAnalysis /\ an_pc = "idle"

\* the call: cuts_dir exists
AnInit ==
    /\ cut_files \in CutFileLists
    /\ processor_ready \in BOOLEAN
    /\ outcomes \in [1..Len(cut_files) -> ProcessOutcomes]
    /\ an_idx = 0 /\ an_result = EmptyAnalysis /\ an_pc = "entry"

AnInputs == <<cut_files, processor_ready, outcomes>>

\* lines 633-635: no cut file, None is returned
NoCutFiles ==
    /\ an_pc = "entry"
    /\ cut_files = <<>>
    /\ an_pc' = "none"
    /\ UNCHANGED <<AnInputs, an_idx, an_result>>
    /\ UNCHANGED otherThanAn

\* lines 640-664: no processor, every cut is a process target
NoProcessor ==
    /\ an_pc = "entry"
    /\ cut_files /= <<>>
    /\ ~processor_ready
    /\ an_result' =
          [EmptyAnalysis EXCEPT
             !.process = cut_files,
             !.details = [i \in 1..Len(cut_files) |->
                            [name |-> cut_files[i], action |-> "process"]],
             !.stats = [total |-> Len(cut_files), to_process |-> Len(cut_files),
                        skip_sfx_only |-> 0, skip_no_bubble |-> 0,
                        skip_no_text |-> 0]]
    /\ an_pc' = "done"
    /\ UNCHANGED <<AnInputs, an_idx>>
    /\ UNCHANGED otherThanAn

\* lines 640 and 667-674: the processor is there, the result starts empty
AnalysisBegins ==
    /\ an_pc = "entry"
    /\ cut_files /= <<>>
    /\ processor_ready
    /\ an_result' = EmptyAnalysis
    /\ an_pc' = "cuts"
    /\ UNCHANGED <<AnInputs, an_idx>>
    /\ UNCHANGED otherThanAn

\* line 677: the loop visits the cut an_idx + 1
AtCut == an_pc = "cuts" /\ an_idx < Len(cut_files)

\* lines 682-716: process returns a verdict, the cut is filed by its action
CutFiled ==
    /\ AtCut
    /\ outcomes[an_idx + 1] /= "raises"
    /\ LET name == cut_files[an_idx + 1]
           action == outcomes[an_idx + 1]
           list == ListOfAction(action) IN
          an_result' =
             [an_result EXCEPT
                ![list] = Append(@, name),
                !.details = Append(@, [name |-> name, action |-> action])]
    /\ an_idx' = an_idx + 1
    /\ UNCHANGED <<AnInputs, an_pc>>
    /\ UNCHANGED otherThanAn

\* lines 682 and 718-726: process raises, the cut is a process target
CutRaised ==
    /\ AtCut
    /\ outcomes[an_idx + 1] = "raises"
    /\ LET name == cut_files[an_idx + 1] IN
          an_result' =
             [an_result EXCEPT
                !.process = Append(@, name),
                !.details = Append(@, [name |-> name, action |-> "process"])]
    /\ an_idx' = an_idx + 1
    /\ UNCHANGED <<AnInputs, an_pc>>
    /\ UNCHANGED otherThanAn

\* lines 728-753: the counts are stored and the result returned
AnReturn ==
    /\ an_pc = "cuts"
    /\ ~(an_idx < Len(cut_files))
    /\ an_result' = [an_result EXCEPT !.stats = AnalysisStats(an_result, Len(cut_files))]
    /\ an_pc' = "done"
    /\ UNCHANGED <<AnInputs, an_idx>>
    /\ UNCHANGED otherThanAn

AnNext ==
    \/ NoCutFiles \/ NoProcessor \/ AnalysisBegins
    \/ CutFiled \/ CutRaised \/ AnReturn

-----------------------------------------------------------------------------
(* The app, step 2: webtoon_pipeline_app.py lines 1062-1457                 *)
(*                                                                          *)
(* An item of a category list is written <<p, k>>, the k-th cut of page p   *)
(* of cut_info_list (its key "<png_stem>/<filename>").  A st.button whose   *)
(* key is already used on the page raises and ends the script run, so the   *)
(* page shows no button at or below the second button of an item.           *)
(***************************************************************************)

\* ---- bounds of the checked inputs ----
MaxPageCuts == 2       \* most cuts of a page

AppPages == {1, 2}

CutInfoLists == UNION { [1..n -> 1..MaxPageCuts] : n \in AppPages }

AppCuts(list) == { q \in (DOMAIN list) \X (1..MaxPageCuts) : q[2] <= list[q[1]] }

\* lines 1068-1074: the empty classification
EmptyClassification ==
    [process |-> <<>>, skip_sfx_only |-> <<>>, skip_no_bubble |-> <<>>,
     skip_no_text |-> <<>>, skip_bubble_only_cut |-> <<>>]

AppSkipCategories ==
    <<"skip_sfx_only", "skip_no_bubble", "skip_no_text", "skip_bubble_only_cut">>

\* lines 1107-1117: the list a verdict's action files the cut under
AppListOfAction(action) ==
    IF action = "process" THEN "process"
    ELSE IF action = "skip_sfx_only" THEN "skip_sfx_only"
    ELSE IF action = "skip_no_bubble" THEN "skip_no_bubble"
    ELSE IF action = "skip_bubble_only_cut" THEN "skip_bubble_only_cut"
    ELSE "skip_no_text"

\* list.remove(item): the first occurrence is removed
RemoveFirst(list, item) ==
    LET i == CHOOSE j \in 1..Len(list) :
                 list[j] = item /\ \A h \in 1..(j - 1) : list[h] /= item
    IN  SubSeq(list, 1, i - 1) \o SubSeq(list, i + 1, Len(list))

\* line 1301: skip_all
AppSkipAll(c) == c.skip_sfx_only \o c.skip_no_bubble \o c.skip_no_text

\* the first position of a list holding an item for the second time
FirstRepeat(list) ==
    LET R == { j \in 1..Len(list) : \E h \in 1..(j - 1) : list[h] = list[j] }
    IN  IF R = {} THEN Len(list) + 1 ELSE CHOOSE j \in R : \A h \in R : j <= h

\* lines 1256-1322: every button of the two item grids is drawn
GridsDrawn(c) ==
    /\ FirstRepeat(c.process) > Len(c.process)
    /\ FirstRepeat(AppSkipAll(c)) > Len(AppSkipAll(c))

\* the cuts of page p, in the order of cut_info['cut_files']
PageItems(p) == [k \in 1..cut_info_list[p] |-> <<p, k>>]

\* the cuts of the first n pages, page by page
RECURSIVE ItemsUpTo(_)
ItemsUpTo(n) == IF n = 0 THEN <<>> ELSE ItemsUpTo(n - 1) \o PageItems(n)

\* lines 1312-1315: the first of the three lists that holds the item
FirstSkipListOf(c, item) ==
    IF item \in SeqRange(c.skip_sfx_only) THEN "skip_sfx_only"
    ELSE IF item \in SeqRange(c.skip_no_bubble) THEN "skip_no_bubble"
    ELSE "skip_no_text"

AppIdle ==
    /\ cut_info_list = <<>> /\ app_outcomes = <<>>
    /\ cut_classification = EmptyClassification
    /\ app_page = 0 /\ app_cut = 0 /\ app_sent = {} /\ app_copied = {}
    /\ app_pc = "idle"

\* lines 947-950: the cuts are split, nothing is classified
AppInit ==
    /\ cut_info_list \in CutInfoLists
    /\ app_outcomes \in [AppCuts(cut_info_list) -> ProcessOutcomes]
    /\ cut_classification = EmptyClassification
    /\ app_page = 0 /\ app_cut = 0 /\ app_sent = {} /\ app_copied = {}
    /\ app_pc = "split"

AppInputs == <<cut_info_list, app_outcomes>>

\* lines 1063-1078: the pre-classification button
PreClassifyStarts ==
    /\ app_pc = "split"
    /\ cut_classification' = EmptyClassification
    /\ app_page' = 0 /\ app_cut' = 0
    /\ app_pc' = "classify"
    /\ UNCHANGED <<AppInputs, app_sent, app_copied>>
    /\ UNCHANGED otherThanApp

\* lines 1196-1218: pre-classification off, every cut is a process target
AllSetToProcess ==
    /\ app_pc = "split"
    /\ cut_classification' =
          [EmptyClassification EXCEPT
             !.process = ItemsUpTo(Len(cut_info_list))]
    /\ app_pc' = "adjust"
    /\ UNCHANGED <<AppInputs, app_page, app_cut, app_sent, app_copied>>
    /\ UNCHANGED otherThanApp

\* lines 1080 and 1093: the loops visit cut app_cut + 1 of page app_page + 1
AtPageCut ==
    /\ app_pc = "classify"
    /\ app_page < Len(cut_info_list)
    /\ app_cut < cut_info_list[app_page + 1]

\* lines 1094-1119: process returns a verdict, the cut is filed by its action
CutClassified ==
    /\ AtPageCut
    /\ app_outcomes[<<app_page + 1, app_cut + 1>>] /= "raises"
    /\ LET list == AppListOfAction(app_outcomes[<<app_page + 1, app_cut + 1>>]) IN
          cut_classification' =
             [cut_classification EXCEPT
                ![list] = Append(@, <<app_page + 1, app_cut + 1>>)]
    /\ app_cut' = app_cut + 1
    /\ UNCHANGED <<AppInputs, app_page, app_sent, app_copied, app_pc>>
    /\ UNCHANGED otherThanApp

\* lines 1097 and 1121-1132: process raises, every cut of the page is
\* appended to process and the page is left
PageRaises ==
    /\ AtPageCut
    /\ app_outcomes[<<app_page + 1, app_cut + 1>>] = "raises"
    /\ cut_classification' =
          [cut_classification EXCEPT !.process = @ \o PageItems(app_page + 1)]
    /\ app_page' = app_page + 1
    /\ app_cut' = 0
    /\ UNCHANGED <<AppInputs, app_sent, app_copied, app_pc>>
    /\ UNCHANGED otherThanApp

\* lines 1093 and 1080: the cuts of the page are done
PageClassified ==
    /\ app_pc = "classify"
    /\ app_page < Len(cut_info_list)
    /\ ~(app_cut < cut_info_list[app_page + 1])
    /\ app_page' = app_page + 1
    /\ app_cut' = 0
    /\ UNCHANGED <<AppInputs, cut_classification, app_sent, app_copied, app_pc>>
    /\ UNCHANGED otherThanApp

\* lines 1188-1191: the classification is stored, step 2-4 opens
PreClassifyEnds ==
    /\ app_pc = "classify"
    /\ ~(app_page < Len(cut_info_list))
    /\ app_pc' = "adjust"
    /\ UNCHANGED <<AppInputs, cut_classification, app_page, app_cut, app_sent,
                   app_copied>>
    /\ UNCHANGED otherThanApp

AdjustUnchanged ==
    /\ UNCHANGED <<AppInputs, app_page, app_cut, app_sent, app_copied, app_pc>>
    /\ UNCHANGED otherThanApp

\* lines 1266-1270: one process target is moved to skip_sfx_only
MoveToSkip ==
    /\ app_pc = "adjust"
    /\ \E idx \in 1..Len(cut_classification.process) :
          /\ idx < FirstRepeat(cut_classification.process)
          /\ cut_classification' =
                [cut_classification EXCEPT
                   !.process = RemoveFirst(@, cut_classification.process[idx]),
                   !.skip_sfx_only = Append(@, cut_classification.process[idx])]
    /\ AdjustUnchanged

\* lines 1310-1318: one skipped cut is moved to process
MoveToProcess ==
    /\ app_pc = "adjust"
    /\ FirstRepeat(cut_classification.process) > Len(cut_classification.process)
    /\ LET skip_all == AppSkipAll(cut_classification) IN
       \E idx \in 1..Len(skip_all) :
          /\ idx < FirstRepeat(skip_all)
          /\ LET item == skip_all[idx]
                 cat == FirstSkipListOf(cut_classification, item)
             IN  cut_classification' =
                    [cut_classification EXCEPT
                       ![cat] = RemoveFirst(@, item),
                       !.process = Append(@, item)]
    /\ AdjustUnchanged

\* lines 1327-1336: every skipped cut is moved to process
AllToProcess ==
    /\ app_pc = "adjust"
    /\ GridsDrawn(cut_classification)
    /\ cut_classification' =
          [EmptyClassification EXCEPT
             !.process = cut_classification.process
                         \o cut_classification.skip_sfx_only
                         \o cut_classification.skip_no_bubble
                         \o cut_classification.skip_no_text
                         \o cut_classification.skip_bubble_only_cut]
    /\ AdjustUnchanged

\* lines 1338-1346: every process target is moved to skip_sfx_only
AllToSkip ==
    /\ app_pc = "adjust"
    /\ GridsDrawn(cut_classification)
    /\ cut_classification' =
          [cut_classification EXCEPT
             !.skip_sfx_only = @ \o cut_classification.process,
             !.process = <<>>,
             !.skip_no_bubble = @ \o cut_classification.skip_bubble_only_cut,
             !.skip_bubble_only_cut = <<>>]
    /\ AdjustUnchanged

\* lines 1359-1457: the removal button; the process targets go to
\* remove_speech_bubbles, the cuts of the skip lists are copied
RemovalRuns ==
    /\ app_pc = "adjust"
    /\ GridsDrawn(cut_classification)
    /\ app_sent' = SeqRange(cut_classification.process)
    /\ app_copied' = UNION { SeqRange(cut_classification[AppSkipCategories[c]]) :
                             c \in DOMAIN AppSkipCategories }
    /\ app_pc' = "processed"
    /\ UNCHANGED <<AppInputs, cut_classification, app_page, app_cut>>
    /\ UNCHANGED otherThanApp

AppNext ==
    \/ PreClassifyStarts \/ AllSetToProcess
    \/ CutClassified \/ PageRaises \/ PageClassified \/ PreClassifyEnds
    \/ MoveToSkip \/ MoveToProcess \/ AllToProcess \/ AllToSkip
    \/ RemovalRuns

-----------------------------------------------------------------------------
(* Bubble removal: WebtoonPipelineGoogle.remove_speech_bubbles              *)
(*                                                                          *)
(* A call of generate_content ends with a picture ("image"), a candidate    *)
(* the service blocked ("declined"), a response without picture             *)
(* ("no_image") or an exception, given by the words of its message.         *)
(***************************************************************************)

\* ---- bounds of the checked inputs ----
MaxEditFiles == 2      \* most cut files of a call

EditFileLists ==
    { [i \in 1..n |-> <<AllStems[i], ".png">>] : n \in 1..Min2(MaxEditFiles, Len(AllStems)) }

EditDelays == {0, 1}

\* messages of the exceptions generate_content raises
ApiErrorMessages ==
    { <<"500", "Internal", "Server", "Error">>, <<"INTERNAL">>, <<"429", "quota">> }

\* line 869: str(api_error).lower(), word by word
LowerWord(w) ==
    IF w \in {"INTERNAL", "Internal"} THEN "internal"
    ELSE IF w = "Server" THEN "server"
    ELSE IF w = "Error" THEN "error"
    ELSE w

\* line 871: '500' in error_str or 'internal' in error_str
IsServerError_any(msg) == TRUE
IsServerError(msg) ==
    \/ "500" \in { LowerWord(msg[k]) : k \in 1..Len(msg) }
    \/ "internal" \in { LowerWord(msg[k]) : k \in 1..Len(msg) }

\* line 872: wait_time = (retry + 1) * 5
RetryWait(retry) == (retry + 1) * 5

\* lines 999-1004: the entry of a cut that failed
Failure(name, err) == [input |-> name, output |-> <<>>, success |-> FALSE, error |-> err]

RsbIdle ==
    /\ rsb_cut_files = <<>> /\ rsb_readable = {} /\ rsb_delay = 0
    /\ rsb_i = 0 /\ rsb_retry = 0 /\ rsb_last_error = <<>>
    /\ rsb_calls = <<>> /\ rsb_sleeps = <<>>
    /\ rsb_stats = [api_calls |-> 0, bubbles_removed |-> 0, errors |-> <<>>]
    /\ rsb_results = <<>> /\ rsb_pc = "idle"

\* lines 805-824: the call on a fresh pipeline
RsbInit ==
    /\ rsb_cut_files \in EditFileLists
    /\ rsb_readable \in SUBSET SeqRange(rsb_cut_files)
    /\ rsb_delay \in EditDelays
    /\ rsb_i = 0 /\ rsb_retry = 0 /\ rsb_last_error = <<>>
    /\ rsb_calls = <<>> /\ rsb_sleeps = <<>>
    /\ rsb_stats = [api_calls |-> 0, bubbles_removed |-> 0, errors |-> <<>>]
    /\ rsb_results = <<>> /\ rsb_pc = "cut"

RsbInputs == <<rsb_cut_files, rsb_readable, rsb_delay>>

\* the cut file visited by the loop at line 826
RsbFile == rsb_cut_files[rsb_i + 1]

\* lines 996-1005: the handler of the cut; the loop goes on with the next cut
CutFails(err) ==
    /\ rsb_results' = Append(rsb_results, Failure(RsbFile, err))
    /\ rsb_stats' = [rsb_stats EXCEPT !.errors = Append(@, RsbFile)]
    /\ rsb_i' = rsb_i + 1
    /\ rsb_retry' = 0
    /\ rsb_pc' = "cut"

\* lines 826-847: the file is read, the attempts start
CutOpens ==
    /\ rsb_pc = "cut"
    /\ rsb_i < Len(rsb_cut_files)
    /\ RsbFile \in rsb_readable
    /\ rsb_retry' = 0
    /\ rsb_last_error' = <<>>
    /\ rsb_pc' = "attempt"
    /\ UNCHANGED <<RsbInputs, rsb_i, rsb_calls, rsb_sleeps, rsb_stats, rsb_results>>
    /\ UNCHANGED otherThanRsb

\* lines 836-837 and 996-1005: the file cannot be opened
CutUnreadable ==
    /\ rsb_pc = "cut"
    /\ rsb_i < Len(rsb_cut_files)
    /\ RsbFile \notin rsb_readable
    /\ CutFails(<<"unreadable">>)
    /\ UNCHANGED <<RsbInputs, rsb_last_error, rsb_calls, rsb_sleeps>>
    /\ UNCHANGED otherThanRsb

\* line 849: the retry loop makes one more call
Attempting == rsb_pc = "attempt" /\ rsb_retry < MaxRetries

Called(outcome) ==
    Append(rsb_calls, [cut |-> rsb_i + 1, retry |-> rsb_retry, outcome |-> outcome])

\* lines 850-866 and 973-994: the service returns a picture; it is saved
\* and, unless this was the last cut, the delay is slept
AttemptSaved ==
    /\ Attempting
    /\ rsb_calls' = Called(<<"image">>)
    /\ rsb_results' = Append(rsb_results,
                             [input |-> RsbFile, output |-> OutName(RsbFile),
                              success |-> TRUE])
    /\ rsb_stats' = [rsb_stats EXCEPT !.api_calls = @ + 1, !.bubbles_removed = @ + 1]
    /\ rsb_sleeps' = IF SleepsAfter(rsb_i + 1, Len(rsb_cut_files), rsb_delay)
                     THEN Append(rsb_sleeps, [cut |-> rsb_i + 1, seconds |-> rsb_delay])
                     ELSE rsb_sleeps
    /\ rsb_i' = rsb_i + 1
    /\ rsb_retry' = 0
    /\ rsb_pc' = "cut"
    /\ UNCHANGED <<RsbInputs, rsb_last_error>>
    /\ UNCHANGED otherThanRsb

\* lines 850-866 and 924-944: the service blocks the picture; the original
\* is copied and the loop continues with the next cut
AttemptDeclined ==
    /\ Attempting
    /\ rsb_calls' = Called(<<"declined">>)
    /\ rsb_results' = Append(rsb_results,
                             [input |-> RsbFile, output |-> OutName(RsbFile),
                              success |-> TRUE, note |-> "original_copy"])
    /\ rsb_i' = rsb_i + 1
    /\ rsb_retry' = 0
    /\ rsb_pc' = "cut"
    /\ UNCHANGED <<RsbInputs, rsb_last_error, rsb_sleeps, rsb_stats>>
    /\ UNCHANGED otherThanRsb

\* lines 850-866, 970-971 and 996-1005: the response holds no picture
AttemptWithoutImage ==
    /\ Attempting
    /\ rsb_calls' = Called(<<"no_image">>)
    /\ CutFails(<<"no_image">>)
    /\ UNCHANGED <<RsbInputs, rsb_last_error, rsb_sleeps>>
    /\ UNCHANGED otherThanRsb

\* lines 867-874: the call raises a server error; wait and try again
AttemptRetried ==
    /\ Attempting
    /\ \E msg \in ApiErrorMessages :
          /\ IsServerError(msg)
          /\ rsb_calls' = Called(msg)
          /\ rsb_last_error' = msg
    /\ rsb_sleeps' = Append(rsb_sleeps, [cut |-> rsb_i + 1, seconds |-> RetryWait(rsb_retry)])
    /\ rsb_retry' = rsb_retry + 1
    /\ UNCHANGED <<RsbInputs, rsb_i, rsb_stats, rsb_results, rsb_pc>>
    /\ UNCHANGED otherThanRsb

\* lines 867-876 and 996-1005: the call raises another error, it is raised
\* again and the cut fails
AttemptAbandoned ==
    /\ Attempting
    /\ \E msg \in ApiErrorMessages :
          /\ ~IsServerError(msg)
          /\ rsb_calls' = Called(msg)
          /\ rsb_last_error' = msg
          /\ CutFails(msg)
    /\ UNCHANGED <<RsbInputs, rsb_sleeps>>
    /\ UNCHANGED otherThanRsb

\* lines 849 and 878-879: max_retries calls made, last_error is raised
RetriesExhausted ==
    /\ rsb_pc = "attempt"
    /\ ~(rsb_retry < MaxRetries)
    /\ CutFails(rsb_last_error)
    /\ UNCHANGED <<RsbInputs, rsb_last_error, rsb_calls, rsb_sleeps>>
    /\ UNCHANGED otherThanRsb

\* lines 1007-1008: every cut visited, results is returned
RsbReturn ==
    /\ rsb_pc = "cut"
    /\ ~(rsb_i < Len(rsb_cut_files))
    /\ rsb_pc' = "done"
    /\ UNCHANGED <<RsbInputs, rsb_i, rsb_retry, rsb_last_error, rsb_calls,
                   rsb_sleeps, rsb_stats, rsb_results>>
    /\ UNCHANGED otherThanRsb

RsbNext ==
    \/ CutOpens \/ CutUnreadable
    \/ AttemptSaved \/ AttemptDeclined \/ AttemptWithoutImage
    \/ AttemptRetried \/ AttemptAbandoned \/ RetriesExhausted
    \/ RsbReturn

-----------------------------------------------------------------------------
(* Stages of a session: webtoon_pipeline_app.py, the stage flags            *)
(*                                                                          *)
(* st.session_state is a function from the keys present to their values.    *)
(* Every user action runs the script once: lines 197-246 give each missing  *)
(* key its default, then the handler of the widget that changed runs.       *)
(* A page is its index in converted_png_list, a cut its page's index; None  *)
(* is "None" for a title, -1 for an index and <<>> for a result.            *)
(***************************************************************************)

\* ---- bounds of the checked inputs ----
MaxProcessed == 1     \* most entries of processed_png_indices
MaxVersion == 4       \* most increments of reprocess_checkbox_version
MaxUploaderKey == 1   \* most increments of file_uploader_key

Titles == {"None", "t1"}
Episodes == {"None", "e1"}
Menus == {"A", "B"}

\* the numbers of pages a conversion yields
PageCounts == {0, 1, 2}

\* list(range(n))
RangeList(n) == [i \in 1..n |-> i - 1]

\* the subsequences of a list
SubLists(list) ==
    { SelectSeq(list, LAMBDA x : x \in keep) : keep \in SUBSET SeqRange(list) }

\* lines 228-234 and 270-276: the five empty lists
NoClassification ==
    [process |-> <<>>, skip_sfx_only |-> <<>>, skip_no_bubble |-> <<>>,
     skip_no_text |-> <<>>, skip_bubble_only_cut |-> <<>>]

\* lines 197-246 and 307-308: the default of every key
SessionDefaults ==
    [file_uploader_key |-> 0, prev_title |-> "None", prev_episode |-> "None",
     step1_done |-> FALSE, converted_png_list |-> <<>>,
     selected_png_indices |-> <<>>, processed_png_indices |-> <<>>,
     cut_split_done |-> FALSE, cut_info_list |-> <<>>, conversion_info |-> <<>>,
     step2_classification_done |-> FALSE, cut_classification |-> NoClassification,
     cut_details |-> {}, processing_done |-> FALSE, processing_result |-> <<>>,
     error_cuts |-> <<>>, preview_page_idx |-> -1, reprocess_selected |-> <<>>,
     current_menu |-> "A"]

\* s with the keys of upd set to upd's values
Assigned(s, upd) ==
    [k \in DOMAIN s \cup DOMAIN upd |-> IF k \in DOMAIN upd THEN upd[k] ELSE s[k]]

\* s without the keys of a set
Deleted(s, keys) == [k \in DOMAIN s \ keys |-> s[k]]

\* lines 197-246: each missing key gets its default
Initialised(s) == Assigned(SessionDefaults, s)

\* st.session_state.get(key, default)
Get(s, key, default) == IF key \in DOMAIN s THEN s[key] ELSE default

\* lines 280-287
clear_from_processing(s) ==
    Assigned(s, [processing_done |-> FALSE, processing_result |-> <<>>,
                 error_cuts |-> <<>>, reprocess_selected |-> <<>>,
                 reprocess_checkbox_version |->
                     Get(s, "reprocess_checkbox_version", 0) + 1])

\* lines 267-278
clear_from_classification(s) ==
    clear_from_processing(
        Assigned(s, [step2_classification_done |-> FALSE,
                     cut_classification |-> NoClassification,
                     cut_details |-> {}]))

\* lines 260-265
clear_from_cut_split_keepsList(s) ==
    clear_from_classification(
        Assigned(s, [cut_split_done |-> FALSE, preview_page_idx |-> -1]))
clear_from_cut_split(s) ==
    clear_from_classification(
        Assigned(s, [cut_split_done |-> FALSE, cut_info_list |-> <<>>,
                     preview_page_idx |-> -1]))

\* lines 252-258
clear_from_png_conversion(s) ==
    clear_from_cut_split(
        Assigned(s, [step1_done |-> FALSE, converted_png_list |-> <<>>,
                     selected_png_indices |-> <<>>,
                     processed_png_indices |-> <<>>]))

\* lines 321-326: the keys a change of menu deletes
keys_to_reset ==
    {"step1_done", "converted_png_list", "selected_png_indices",
     "processed_png_indices", "cut_split_done", "cut_info_list",
     "step2_classification_done", "cut_classification", "cut_details",
     "processing_done", "processing_result", "error_cuts", "conversion_info"}

SesIdle == session_state = <<>> /\ ses_pc = "idle"

\* the session of a browser that has not run the script yet
SesInit == session_state = <<>> /\ ses_pc = "run"

\* the state the handlers of a run see
Session == Initialised(session_state)

\* the run can still count a clear_from_processing
VersionLeft == Get(Session, "reprocess_checkbox_version", 0) < MaxVersion

\* a run in which no handler fires
Stored(s) == session_state' = s /\ ses_pc' = "run" /\ UNCHANGED otherThanSes

\* lines 319-332: the other menu is chosen
MenuChange ==
    /\ ses_pc = "run"
    /\ \E app_mode \in Menus :
          /\ app_mode # Session.current_menu
          /\ Stored(Assigned(Deleted(Session, keys_to_reset), [current_menu |-> app_mode]))

\* the script goes past line 364 only in menu A
InMenuA == ses_pc = "run" /\ Session.current_menu = "A"

\* lines 469-479: another title or episode is chosen
TitleChange ==
    /\ InMenuA
    /\ \E selected_title \in Titles, selected_episode \in Episodes :
          /\ Session.prev_title # selected_title \/ Session.prev_episode # selected_episode
          /\ selected_title = "None" => selected_episode = "None"
          /\ IF Session.prev_title # "None" \/ Session.prev_episode # "None"
             THEN /\ Session.file_uploader_key < MaxUploaderKey
                  /\ Stored(Assigned(Session,
                         [file_uploader_key |-> Session.file_uploader_key + 1,
                          step1_done |-> FALSE, cut_split_done |-> FALSE,
                          step2_classification_done |-> FALSE,
                          processing_done |-> FALSE,
                          prev_title |-> selected_title,
                          prev_episode |-> selected_episode]))
             ELSE Stored(Assigned(Session, [prev_title |-> selected_title,
                                            prev_episode |-> selected_episode]))

\* line 543: can_convert, the title and the episode chosen and files uploaded
CanConvert == Session.prev_title # "None" /\ Session.prev_episode # "None"

\* lines 547-610: "PNG 변환"; the conversion yields n pages, or none
Convert ==
    /\ InMenuA /\ CanConvert /\ VersionLeft
    /\ \E n \in PageCounts :
          IF n > 0
          THEN Stored(Assigned(clear_from_png_conversion(Session),
                   [converted_png_list |-> RangeList(n),
                    selected_png_indices |-> RangeList(n),
                    step1_done |-> TRUE,
                    conversion_info |-> <<Session.prev_title, Session.prev_episode>>]))
          ELSE Stored(clear_from_png_conversion(Session))

\* line 613: the page table is shown
TableShown == InMenuA /\ Session.step1_done /\ Session.converted_png_list # <<>>

\* lines 703-736: "미처리만 선택", "전체 선택", "전체 해제"; which pages are
\* pending is read from the disk
SelectionButton ==
    /\ TableShown
    /\ \E indices \in SubLists(Session.converted_png_list) :
          Stored(Assigned(Session,
              [selected_png_indices |-> indices, cut_split_done |-> FALSE,
               step2_classification_done |-> FALSE, processing_done |-> FALSE]))

\* lines 796-812: the checkbox of one page changes
SelectionToggle ==
    /\ TableShown
    /\ \E global_idx \in SeqRange(Session.converted_png_list) :
          Stored(Assigned(Session,
              [selected_png_indices |->
                   IF global_idx \in SeqRange(Session.selected_png_indices)
                   THEN RemoveFirst(Session.selected_png_indices, global_idx)
                   ELSE Append(Session.selected_png_indices, global_idx),
               cut_split_done |-> FALSE, step2_classification_done |-> FALSE,
               processing_done |-> FALSE, cut_info_list |-> <<>>,
               cut_classification |-> NoClassification]))

\* lines 790-792 and 825-827: "조회" of a finished page, "닫기"
Preview ==
    /\ TableShown
    /\ \E idx \in SeqRange(Session.converted_png_list) \cup {-1} :
          /\ idx # Session.preview_page_idx
          /\ idx = -1 => Session.preview_page_idx # -1
          /\ Stored(Assigned(Session, [preview_page_idx |-> idx]))

\* lines 877-941: "컷 분리 실행"; the pages whose split raised are left out
SplitRun ==
    /\ TableShown /\ VersionLeft
    /\ Session.selected_png_indices # <<>>
    /\ \E split \in SubLists(Session.selected_png_indices) :
          IF split # <<>>
          THEN Stored(Assigned(clear_from_cut_split(Session),
                   [cut_info_list |-> split, cut_split_done |-> TRUE]))
          ELSE Stored(clear_from_cut_split(Session))

\* line 947: step 2 is shown
Step2Shown == InMenuA /\ Session.cut_split_done /\ ~Session.processing_done

\* lines 1062-1191: "사전분류 실행"; each cut is filed for the edit or not
Classify ==
    /\ Step2Shown /\ VersionLeft
    /\ ~Session.step2_classification_done
    /\ \E process \in SubLists(Session.cut_info_list) :
          Stored(Assigned(clear_from_classification(Session),
              [cut_classification |->
                   [NoClassification EXCEPT
                       !.process = process,
                       !.skip_no_bubble =
                           SelectSeq(Session.cut_info_list,
                                     LAMBDA c : c \notin SeqRange(process))],
               cut_details |-> SeqRange(Session.cut_info_list),
               step2_classification_done |-> TRUE]))

\* lines 1193-1218: "전체 처리 대상으로 설정"
ClassifyAll ==
    /\ Step2Shown
    /\ ~Session.step2_classification_done
    /\ Stored(Assigned(Session,
           [cut_classification |->
                [process |-> Session.cut_info_list, skip_sfx_only |-> <<>>,
                 skip_no_bubble |-> <<>>, skip_no_text |-> <<>>],
            step2_classification_done |-> TRUE]))

\* line 1222: the adjustment and the removal button are shown
AdjustShown == InMenuA /\ Session.step2_classification_done /\ ~Session.processing_done

\* lines 1348-1351: "분류 다시하기"
Reclassify ==
    /\ AdjustShown
    /\ Stored(Assigned(Session, [step2_classification_done |-> FALSE,
                                 cut_classification |-> NoClassification]))

\* lines 1359-1491: "말풍선 제거 실행"; some of the edits fail
Process ==
    /\ AdjustShown /\ VersionLeft
    /\ \E failed \in SubLists(Session.cut_classification.process) :
          Stored(Assigned(clear_from_processing(Session),
              [processing_done |-> TRUE,
               processing_result |->
                   <<[api_calls |-> Len(Session.cut_classification.process),
                      success_count |->
                          Len(Session.cut_classification.process) - Len(failed),
                      error_count |-> Len(failed)]>>,
               error_cuts |-> failed]))

\* line 1497: the result is shown
ResultShown == InMenuA /\ Session.processing_done

\* lines 1552-1628: "선택 컷 재처리"; the selected cuts that fail again are
\* what error_cuts keeps
Reprocess ==
    /\ ResultShown
    /\ \E selected_errors \in SubLists(Session.error_cuts) \ {<<>>} :
       \E retry_failed \in SubLists(selected_errors) :
          LET retry_success == Len(selected_errors) - Len(retry_failed) IN
          IF retry_success > 0
          THEN Stored(Assigned(Session,
                   [error_cuts |-> retry_failed,
                    processing_result |->
                        <<[Session.processing_result[1] EXCEPT
                              !.success_count = @ + retry_success,
                              !.error_count = Len(retry_failed)]>>]))
          ELSE Stored(Assigned(Session, [error_cuts |-> retry_failed]))

\* lines 1869-1875: the pages neither processed before nor selected now
remaining_indices ==
    SelectSeq(Session.converted_png_list,
              LAMBDA idx : idx \notin SeqRange(Get(Session, "processed_png_indices", <<>>))
                                          \cup SeqRange(Session.selected_png_indices))

\* lines 1877-1902: "처리 완료 → 다음 파일"
NextFile ==
    /\ ResultShown
    /\ remaining_indices # <<>>
    /\ Len(Session.processed_png_indices) + Len(Session.selected_png_indices) <= MaxProcessed
    /\ Stored(Assigned(Session,
           [selected_png_indices |-> <<>>,
            processed_png_indices |->
                Session.processed_png_indices \o Session.selected_png_indices,
            cut_split_done |-> FALSE, step2_classification_done |-> FALSE,
            processing_done |-> FALSE, cut_info_list |-> <<>>,
            cut_classification |-> NoClassification,
            processing_result |-> <<>>, error_cuts |-> <<>>]))

\* lines 1907-1913: "새 작업 시작"
NewJob ==
    /\ ResultShown
    /\ Session.file_uploader_key < MaxUploaderKey
    /\ Stored([file_uploader_key |-> Session.file_uploader_key + 1])

SesNext ==
    \/ MenuChange \/ TitleChange \/ Convert
    \/ SelectionButton \/ SelectionToggle \/ Preview \/ SplitRun
    \/ Classify \/ ClassifyAll \/ Reclassify \/ Process
    \/ Reprocess \/ NextFile \/ NewJob

-----------------------------------------------------------------------------
(* Specifications, one per component *)

InitSplit == SplitInit /\ ClsIdle /\ ProcIdle /\ SelIdle /\ DetIdle /\ CutIdle /\ AnIdle /\ AppIdle /\ RsbIdle /\ SesIdle
SpecSplit == InitSplit /\ [][SplitNext]_vars

InitClassify == ClsInit /\ SplitIdle /\ ProcIdle /\ SelIdle /\ DetIdle /\ CutIdle /\ AnIdle /\ AppIdle /\ RsbIdle /\ SesIdle
SpecClassify == InitClassify /\ [][ClsNext]_vars

InitProcess == ProcInit /\ SplitIdle /\ ClsIdle /\ SelIdle /\ DetIdle /\ CutIdle /\ AnIdle /\ AppIdle /\ RsbIdle /\ SesIdle
SpecProcess == InitProcess /\ [][ProcNext]_vars

InitSelective == SelInit /\ SplitIdle /\ ClsIdle /\ ProcIdle /\ DetIdle /\ CutIdle /\ AnIdle /\ AppIdle /\ RsbIdle /\ SesIdle
SpecSelective == InitSelective /\ [][SelNext]_vars

InitDetect == DetInit /\ SplitIdle /\ ClsIdle /\ ProcIdle /\ SelIdle /\ CutIdle /\ AnIdle /\ AppIdle /\ RsbIdle /\ SesIdle
SpecDetect == InitDetect /\ [][DetNext]_vars

InitCut == CutInit /\ SplitIdle /\ ClsIdle /\ ProcIdle /\ SelIdle /\ DetIdle /\ AnIdle /\ AppIdle /\ RsbIdle /\ SesIdle
SpecCut == InitCut /\ [][CutNext]_vars

\* the function runs to completion: the interpreter always executes its next
\* statement, so a step that stays enabled is eventually taken
InitSplitFair == SplitFairInit /\ ClsIdle /\ ProcIdle /\ SelIdle /\ DetIdle /\ CutIdle /\ AnIdle /\ AppIdle /\ RsbIdle /\ SesIdle
SpecSplitFair == InitSplitFair /\ [][SplitNext]_vars /\ WF_vars(SplitNext)

InitAnalyze == AnInit /\ SplitIdle /\ ClsIdle /\ ProcIdle /\ SelIdle /\ DetIdle /\ CutIdle /\ AppIdle /\ RsbIdle /\ SesIdle
SpecAnalyze == InitAnalyze /\ [][AnNext]_vars

InitApp == AppInit /\ SplitIdle /\ ClsIdle /\ ProcIdle /\ SelIdle /\ DetIdle /\ CutIdle /\ AnIdle /\ RsbIdle /\ SesIdle
SpecApp == InitApp /\ [][AppNext]_vars

InitRemoval == RsbInit /\ SplitIdle /\ ClsIdle /\ ProcIdle /\ SelIdle /\ DetIdle /\ CutIdle /\ AnIdle /\ AppIdle /\ SesIdle
SpecRemoval == InitRemoval /\ [][RsbNext]_vars

InitSession == SesInit /\ SplitIdle /\ ClsIdle /\ ProcIdle /\ SelIdle /\ DetIdle /\ CutIdle /\ AnIdle /\ AppIdle /\ RsbIdle
SpecSession == InitSession /\ [][SesNext]_vars

-----------------------------------------------------------------------------
(* Properties of the splitter *)

SplitDone == split_pc = "done"

\* the multiples of M strictly below H, in order, followed by H
TileBoundaries(H, M) ==
    LET n == (H - 1) \div M + 1
    IN  [i \in 1..(n + 1) |-> IF i <= n THEN (i - 1) * M ELSE H]

\* C1: with an empty gap sequence, H >= 1 and M >= 1, the returned boundaries
\* are exactly 0, M, 2M, ... (every multiple of M strictly below H) followed
\* by H, no boundary repeated.
C1_TilingExact ==
    (SplitDone /\ all_gaps = <<>>) =>
        /\ boundaries = TileBoundaries(total_height, max_cut_height)
        /\ StrictlyIncreasing(boundaries)

\* C1 witness: a finished gap-free page whose height is a multiple of the
\* budget, with two interior boundaries
C1_Witness ==
    /\ SplitDone /\ all_gaps = <<>>
    /\ total_height = 3 * max_cut_height
    /\ Len(boundaries) = 4

\* C2: for every gap sequence the returned boundary list is strictly
\* increasing, starts at >= 0 and ends at <= H.
C2_BoundariesIncreasing ==
    SplitDone =>
        /\ StrictlyIncreasing(boundaries)
        /\ boundaries[1] >= 0
        /\ Last(boundaries) <= total_height

\* the page has exactly the 600-row run centred on its midpoint, and a budget
\* that spans the page
IsMidGapPage ==
    /\ Len(all_gaps) = 1
    /\ all_gaps[1].height = MidGapRows
    /\ all_gaps[1].start \in {(total_height - MidGapRows) \div 2,
                              (total_height - MidGapRows + 1) \div 2}
    /\ total_height >= MidGapRows
    /\ max_cut_height >= total_height

\* C3 as stated: every such page yields the two boundaries [0, H].
C3_MidGapSinglePanel_Original ==
    (SplitDone /\ IsMidGapPage) => boundaries = <<0, total_height>>

\* C3 amended: the page yields [0, H] when the run is not a top margin, that
\* is when its first row is row 50 or a later row (H >= 700) or when it is
\* shorter than min_panel_gap; a run of at least min_panel_gap rows whose
\* first row is before row 50 is trimmed as the top margin, and the
\* boundaries start at its end + 1 and end at H.
C3_MidGapSinglePanel ==
    (SplitDone /\ IsMidGapPage) =>
        IF all_gaps[1].start >= MarginRows \/ all_gaps[1].height < min_panel_gap
        THEN boundaries = <<0, total_height>>
        ELSE /\ boundaries[1] = all_gaps[1]["end"] + 1
             /\ Last(boundaries) = total_height
             /\ Len(boundaries) <= 2

\* C3 witness: a page of height 700, run at rows 50..649 treated as a panel
\* gap, returned as one panel
C3_Witness ==
    /\ SplitDone /\ IsMidGapPage
    /\ all_gaps[1].start = MarginRows
    /\ all_gaps[1].height >= min_panel_gap
    /\ boundaries = <<0, total_height>>

\* the splitter has entered the walking loop for a page with gaps
Walking == all_gaps /= <<>> /\ split_pc \in {"walk", "final", "done"}

\* the mids of all gaps of the page lying in (lo, hi]
MidsIn(lo, hi) ==
    {all_gaps[k].mid : k \in {j \in 1..Len(all_gaps) :
                                all_gaps[j].mid > lo /\ all_gaps[j].mid <= hi}}

\* the mids of all gaps of the page beyond lo
MidsBeyond(lo) ==
    {all_gaps[k].mid : k \in {j \in 1..Len(all_gaps) : all_gaps[j].mid > lo}}

SetMax(S) == CHOOSE m \in S : \A n \in S : n <= m
SetMin(S) == CHOOSE m \in S : \A n \in S : m <= n

\* boundary i was the current position of an iteration that had more than
\* the budget left
OverBudgetAt(i) == i < Len(boundaries) /\ end_y - boundaries[i] > max_cut_height

\* C15: whenever more than maxPanelHeight remains and no gap has its mid in
\* (current, current + maxPanelHeight], the next boundary is the mid of the
\* nearest following gap if it is within 2 x maxPanelHeight of current, and
\* current + maxPanelHeight otherwise, also when no gap follows; so no two
\* consecutive boundaries are more than 2 x maxPanelHeight apart.
C15_StretchOrForce ==
    Walking =>
        /\ \A i \in 1..Len(boundaries) :
              (OverBudgetAt(i)
                 /\ MidsIn(boundaries[i], boundaries[i] + max_cut_height) = {}) =>
                 LET after == MidsBeyond(boundaries[i] + max_cut_height) IN
                 boundaries[i + 1] =
                    IF after /= {}
                       /\ SetMin(after) - boundaries[i] <= 2 * max_cut_height
                    THEN SetMin(after)
                    ELSE boundaries[i] + max_cut_height
        /\ \A i \in 1..(Len(boundaries) - 1) :
              boundaries[i + 1] - boundaries[i] <= 2 * max_cut_height

\* C16: in the boundaries returned for a page with gaps, the span from a
\* boundary b to the next one is at most maxPanelHeight whenever some gap of
\* the page, panel gap or not, has its mid in (b, b + maxPanelHeight].
C16_OverBudgetOnlyWithoutGap ==
    (SplitDone /\ all_gaps /= <<>>) =>
        \A i \in 1..(Len(boundaries) - 1) :
            MidsIn(boundaries[i], boundaries[i] + max_cut_height) /= {} =>
                boundaries[i + 1] - boundaries[i] <= max_cut_height

\* C16 witness: a returned list with a span over the budget, no gap being in
\* reach, followed by a span cut at a gap within the budget
C16_Witness ==
    /\ SplitDone /\ all_gaps /= <<>>
    /\ Len(boundaries) >= 3
    /\ boundaries[2] - boundaries[1] > max_cut_height
    /\ MidsIn(boundaries[1], boundaries[1] + max_cut_height) = {}
    /\ MidsIn(boundaries[2], boundaries[2] + max_cut_height) /= {}
    /\ boundaries[3] - boundaries[2] <= max_cut_height
    /\ boundaries[3] < end_y

\* C17: whenever more than maxPanelHeight remains and some gap has its mid in
\* (current, current + maxPanelHeight], the next boundary is the largest such
\* mid, taken over all gaps of the page: those shorter than min_panel_gap and
\* those trimmed as a margin included.
C17_LatestGapInBudget ==
    Walking =>
        \A i \in 1..Len(boundaries) :
            (OverBudgetAt(i)
               /\ MidsIn(boundaries[i], boundaries[i] + max_cut_height) /= {}) =>
               boundaries[i + 1] =
                  SetMax(MidsIn(boundaries[i], boundaries[i] + max_cut_height))

\* C17 witness: two gaps within the budget of the first boundary, the cut
\* made at the later one, which is shorter than min_panel_gap
C17_Witness ==
    /\ SplitDone /\ all_gaps /= <<>>
    /\ OverBudgetAt(1)
    /\ Cardinality(MidsIn(boundaries[1], boundaries[1] + max_cut_height)) >= 2
    /\ \E k \in 1..Len(all_gaps) :
          /\ all_gaps[k].mid = boundaries[2]
          /\ all_gaps[k].height < min_panel_gap

\* the positions in all_gaps of the gaps of at least min_panel_gap rows
PanelGapIndices == {k \in 1..Len(all_gaps) : all_gaps[k].height >= min_panel_gap}

\* the first such gap starts at a row below 50
TopTrimmed ==
    /\ PanelGapIndices /= {}
    /\ all_gaps[SetMin(PanelGapIndices)].start < 50

\* the such gaps that remain once a top margin is taken away
RemainingPanelGaps ==
    IF TopTrimmed THEN PanelGapIndices \ {SetMin(PanelGapIndices)}
    ELSE PanelGapIndices

\* the last remaining one ends above row H - 50
BottomTrimmed ==
    /\ RemainingPanelGaps /= {}
    /\ all_gaps[SetMax(RemainingPanelGaps)]["end"] > total_height - 50

\* C18: the first returned boundary is end + 1 of the first gap of at least
\* min_panel_gap rows if that gap starts at a row below 50, and 0 otherwise;
\* the last returned boundary is the start of the last remaining such gap if
\* it ends above row H - 50, and H otherwise; shorter gaps move neither.
C18_MarginTrimming ==
    SplitDone =>
        /\ boundaries[1] =
              IF TopTrimmed THEN all_gaps[SetMin(PanelGapIndices)]["end"] + 1 ELSE 0
        /\ Last(boundaries) =
              IF BottomTrimmed THEN all_gaps[SetMax(RemainingPanelGaps)].start
              ELSE total_height

\* C18 witness: a short gap on the first rows, then a top margin and a
\* bottom margin, both trimmed
C18_Witness ==
    /\ SplitDone
    /\ Len(all_gaps) = 3
    /\ all_gaps[1].height < min_panel_gap /\ all_gaps[1].start < 50
    /\ TopTrimmed /\ BottomTrimmed
    /\ boundaries[1] = all_gaps[2]["end"] + 1
    /\ Last(boundaries) = all_gaps[3].start

-----------------------------------------------------------------------------
(* Properties of the classifier *)

ClsReturned == cls_pc = "returned"

\* the text is empty or made of whitespace only
OnlyWhitespace(t) == \A i \in 1..Len(t) : t[i] \in Whitespace

\* the SFX check of the decision order: exact dictionary hit, guarded
\* containment or SFX pattern, each on the normalized text
SfxCheckFires(t) ==
    \/ SfxDictionaryHit(normalize(t))
    \/ SfxContainment(normalize(t))
    \/ SfxRegexMatch(normalize(t))

\* a dialogue-hint pattern matches the text
DialogueHintMatches(t) == HintParticle(t) \/ HintEnding(t)

\* C4: an empty or whitespace-only text is classified empty with confidence
\* 1.0 and is_dialogue false, inside and outside a bubble.
C4_BlankIsEmpty ==
    (ClsReturned /\ OnlyWhitespace(cls_text)) =>
        /\ cls_result.type = "empty"
        /\ cls_result.confidence = 100
        /\ cls_result.is_dialogue = FALSE

\* C4 witness: three blanks outside a bubble, classified
C4_Witness ==
    /\ ClsReturned
    /\ cls_text = <<" ", " ", " ">>
    /\ ~cls_is_in_bubble
    /\ cls_result.type = "empty"

\* C5: a non-empty text matching no meta pattern for which the SFX check
\* fires is classified sfx with confidence 0.95 and is_dialogue false, the
\* same verdict inside and outside a bubble.
C5_SfxVerdict ==
    (ClsReturned /\ ~OnlyWhitespace(cls_text) /\ ~MetaMatch(cls_text)
        /\ SfxCheckFires(cls_text)) =>
        /\ cls_result.type = "sfx"
        /\ cls_result.confidence = 95
        /\ cls_result.is_dialogue = FALSE
        /\ cls_result.reason = "sfx_dictionary"

\* C5 witness: the doubled character U+CFF5 U+CFF5 inside a bubble
C5_Witness ==
    /\ ClsReturned
    /\ cls_text = <<"ku_ng", "ku_ng">>
    /\ cls_is_in_bubble
    /\ cls_result.type = "sfx"

\* C6: inside a bubble a non-empty text that matches no meta pattern and
\* fails the SFX check is dialogue with confidence 0.8, whether or not a
\* dialogue hint matches.
C6_BubbleDefault ==
    (ClsReturned /\ cls_is_in_bubble /\ ~OnlyWhitespace(cls_text)
        /\ ~MetaMatch(cls_text) /\ ~SfxCheckFires(cls_text)) =>
        /\ cls_result.type = "dialogue"
        /\ cls_result.is_dialogue = TRUE
        /\ cls_result.confidence = 80

\* C6 witness: a text without any dialogue hint is dialogue inside a bubble
C6_Witness ==
    /\ ClsReturned /\ cls_is_in_bubble
    /\ cls_text = <<"xa_n", "hwa">>
    /\ ~DialogueHintMatches(cls_text)
    /\ cls_result.type = "dialogue"

\* C7: outside a bubble a non-empty text that matches no meta pattern and
\* fails the SFX check is dialogue if its normalized form contains a laughter
\* token, else dialogue if a dialogue hint matches the original text and the
\* normalized form is longer than one character, else background_noise with
\* confidence 0.6 and is_dialogue false.
C7_FloatingVerdict ==
    (ClsReturned /\ ~cls_is_in_bubble /\ ~OnlyWhitespace(cls_text)
        /\ ~MetaMatch(cls_text) /\ ~SfxCheckFires(cls_text)) =>
        IF HasLaughToken(normalize(cls_text))
           \/ (DialogueHintMatches(cls_text) /\ Len(normalize(cls_text)) > 1)
        THEN cls_result.type = "dialogue" /\ cls_result.is_dialogue = TRUE
        ELSE /\ cls_result.type = "background_noise"
             /\ cls_result.confidence = 60
             /\ cls_result.is_dialogue = FALSE

\* C7 witness: a lone ending outside a bubble matches a hint but is noise
C7_Witness ==
    /\ ClsReturned /\ ~cls_is_in_bubble
    /\ cls_text = <<"xyo", "!">>
    /\ DialogueHintMatches(cls_text)
    /\ cls_result.type = "background_noise"

\* C8: a non-empty text whose original form matches a meta pattern is meta
\* with confidence 0.9 and is_dialogue false, also when it passes the SFX
\* check or a dialogue hint, inside and outside a bubble.
C8_MetaFirst ==
    (ClsReturned /\ ~OnlyWhitespace(cls_text) /\ MetaMatch(cls_text)) =>
        /\ cls_result.type = "meta"
        /\ cls_result.confidence = 90
        /\ cls_result.is_dialogue = FALSE

\* C8 witness: a chapter marker with a note passes the SFX check too
C8_Witness ==
    /\ ClsReturned
    /\ cls_text = <<"note_eighth", "1", "hwa">>
    /\ MetaMatch(cls_text) /\ SfxCheckFires(cls_text)
    /\ cls_result.type = "meta"

\* the categories a verdict may carry
Categories == {"sfx", "meta", "dialogue", "background_noise", "empty"}

\* C13: every verdict classify returns, for every text and inside or outside
\* a bubble, has a type among sfx, meta, dialogue, background_noise and empty
\* (never the placeholder unknown), a confidence within [0, 1], and
\* is_dialogue true exactly when the type is dialogue.
C13_VerdictWellFormed ==
    ClsReturned =>
        /\ cls_result.type \in Categories
        /\ cls_result.confidence \in 0..100
        /\ cls_result.is_dialogue <=> (cls_result.type = "dialogue")

\* C13 witness: a sentence outside a bubble, dialogue by its structure, the
\* confidence left at its initial 0.0
C13_Witness ==
    /\ ClsReturned /\ ~cls_is_in_bubble
    /\ cls_text = <<"xa_n", "neu_n", "xyo">>
    /\ cls_result.type = "dialogue"
    /\ cls_result.is_dialogue = TRUE
    /\ cls_result.confidence = 0
    /\ cls_result.reason = "floating_structure"

\* the dictionary entries of more than one character that are longer than a
\* third of the normalized text and contained in it
ContainedEntries(t) ==
    LET clean == normalize(t) IN
    {e \in sfx_dictionary :
        /\ Len(e) > 1
        /\ Len(clean) < 3 * Len(e)
        /\ \E i \in 1..(Len(clean) - Len(e) + 1) :
              \A j \in 1..Len(e) : clean[i + j - 1] = e[j]}

\* C19: a text that is not blank, matches no meta pattern, is no dictionary
\* entry and matches no SFX pattern is classified sfx exactly when its
\* normalized form contains a dictionary entry e with len(e) > 1 and
\* len(normalized) < 3 x len(e).
C19_ContainmentRule ==
    (ClsReturned /\ ~OnlyWhitespace(cls_text) /\ ~MetaMatch(cls_text)
        /\ normalize(cls_text) \notin sfx_dictionary
        /\ ~SfxRegexMatch(normalize(cls_text))) =>
        (cls_result.type = "sfx" <=> ContainedEntries(cls_text) /= {})

\* C19 witness: a six-character text holding a two-character entry once is
\* three times as long as the entry and is not sfx
C19_Witness ==
    /\ ClsReturned
    /\ cls_text = <<"hwa", "ttu", "beo_k", "hwa", "hwa", "ttu">>
    /\ ContainedEntries(cls_text) = {}
    /\ cls_result.type /= "sfx"

\* the text is not empty and made of the characters ! ? ~ . only
OnlyPunctuation(t) == t /= <<>> /\ \A i \in 1..Len(t) : t[i] \in {"!", "?", "~", "."}

\* C20: every non-empty text made of the characters ! ? ~ . only is
\* classified sfx, inside and outside a bubble.
C20_PunctuationIsSfx ==
    (ClsReturned /\ OnlyPunctuation(cls_text)) => cls_result.type = "sfx"

-----------------------------------------------------------------------------
(* Properties of the aggregator *)

\* process returned a verdict for an image it could read
ProcReturnedReadable == proc_pc = "done" /\ img = "array"

\* the entries of detected_texts that come from the in-bubble pass: the
\* floating candidates alone carry a recognition confidence (line 182)
InBubbleTexts == SelectSeq(detected_texts, LAMBDA t : "confidence" \notin DOMAIN t)

InBubbleDialogueFound ==
    \E i \in 1..Len(InBubbleTexts) : InBubbleTexts[i].classification.is_dialogue

\* C9: within one call of process the floating scan is called only once the
\* in-bubble pass has visited every detected bubble, it is called exactly
\* when no in-bubble verdict is dialogue or no bubble was detected, and never
\* when an in-bubble snippet was classified as dialogue.
C9_FloatingScanSequencing ==
    /\ scan_calls > 0 =>
          /\ proc_pc \in {"tally", "done", "raised"}
          /\ use_ocr => bubble_idx = Len(bubbles)
    /\ InBubbleDialogueFound => scan_calls = 0
    /\ (proc_pc = "tally" \/ ProcReturnedReadable) =>
          (scan_calls = 1 <=> (~InBubbleDialogueFound \/ Len(bubbles) = 0))
    /\ scan_calls <= 1

\* C9 witness: two bubbles, dialogue recognised in one, the verdict returned
\* without any floating scan
C9_Witness ==
    /\ ProcReturnedReadable
    /\ Len(bubbles) = 2 /\ bubble_idx = 2
    /\ InBubbleDialogueFound
    /\ scan_calls = 0
    /\ result.action = "process"

\* the priority table over the final tallies and the detected bubbles
ActionTable(dialogue_count, sfx_count, bubble_count) ==
    CASE dialogue_count > 0 -> "process"
      [] dialogue_count = 0 /\ sfx_count > 0 -> "skip_sfx_only"
      [] dialogue_count = 0 /\ sfx_count = 0 /\ bubble_count > 0 -> "process"
      [] OTHER -> "skip_no_bubble"

\* C10: for a readable panel the returned action is process when
\* dialogue_count > 0, else skip_sfx_only when sfx_count > 0, else process
\* when a bubble was detected, else skip_no_bubble.
C10_ActionPriority ==
    ProcReturnedReadable =>
        result.action = ActionTable(result.text_analysis.dialogue_count,
                                    result.text_analysis.sfx_count,
                                    Len(bubbles))

\* C10 witness: one bubble, no text recognised anywhere, action process
C10_Witness ==
    /\ ProcReturnedReadable
    /\ Len(bubbles) = 1
    /\ result.text_analysis.total = 0
    /\ ocr_available
    /\ result.action = "process"

\* process returned a verdict, for a readable or an unreadable image
ProcReturned == proc_pc = "done"

\* the entries read by the floating scan that reach the classifier: not
\* blank, recognised with enough confidence, a classifier present
FloatingClassified ==
    { i \in 1..Len(floating_data) :
        /\ has_classifier
        /\ Strip(floating_data[i].text) /= <<>>
        /\ floating_data[i].conf >= FloatingMinConf }

\* the type the classifier gives to entry i of the floating scan
FloatingType(i) == classify(Strip(floating_data[i].text), FALSE).type

FloatingSfxOnly ==
    /\ \E i \in FloatingClassified : FloatingType(i) = "sfx"
    /\ \A i \in FloatingClassified : FloatingType(i) /= "dialogue"

\* C11: a panel with no detected bubble whose floating scan reads at least
\* one snippet classified sfx and none classified dialogue is returned with
\* action skip_sfx_only, the sfx tally counting the floating snippets.
C11_FloatingSfxTallied ==
    (ProcReturnedReadable /\ Len(bubbles) = 0 /\ scan_calls = 1
        /\ FloatingSfxOnly) =>
        /\ result.action = "skip_sfx_only"
        /\ result.text_analysis.sfx_count =
              Cardinality({i \in FloatingClassified : FloatingType(i) = "sfx"})

\* C12: the action of every verdict process returns, the verdict for an
\* unreadable image included, is process, skip_sfx_only or skip_no_bubble.
C12_ActionDomain ==
    ProcReturned =>
        result.action \in {"process", "skip_sfx_only", "skip_no_bubble"}

-----------------------------------------------------------------------------
(* Properties of the selective edit dispatch *)

SelDone == sel_pc = "done"

\* the files named by a skip list and not by the process list
SkipOnly ==
    SeqRange(SkipAll(classification)) \ SeqRange(classification.process)

\* the name <stem>_nobubble.png
NoBubbleName(name) == <<name[1], "_nobubble.png">>

\* C14: the edit service is sent only files listed under process; a file
\* listed only under skip_sfx_only, skip_no_bubble or skip_no_text is never
\* sent and, if it exists in cuts_dir, output_dir holds its unchanged copy
\* under <name>_nobubble.png, api_skipped counting one per such copy.
C14_ApiOnlyForProcess ==
    /\ SeqRange(api_requests) \subseteq SeqRange(classification.process)
    /\ SelDone =>
          /\ \A f \in SkipOnly :
                /\ f \notin SeqRange(api_requests)
                /\ f \in cuts_dir =>
                      /\ NoBubbleName(f) \in DOMAIN output_dir
                      /\ output_dir[NoBubbleName(f)] = Original(f)
          /\ stats.api_skipped =
                Cardinality(SeqRange(SkipAll(classification)) \cap cuts_dir)

\* C14 witness: one file edited by the service, another one only skipped and
\* copied
C14_Witness ==
    /\ SelDone
    /\ api_requests /= <<>>
    /\ \E f \in SkipOnly :
          /\ f \in cuts_dir
          /\ output_dir[NoBubbleName(f)] = Original(f)
    /\ stats.api_skipped = 1

-----------------------------------------------------------------------------
(* Properties of the gap detection *)

DetDone == det_pc = "done"

\* row r of the page is blank; rows outside the page are not
BlankRow(r) == r >= 0 /\ r < Len(is_gap) /\ is_gap[r + 1]

\* the maximal runs of blank rows of at least min_height rows, as pairs
\* <<first row, last row>>
MaximalRuns ==
    { p \in (0..(Len(is_gap) - 1)) \X (0..(Len(is_gap) - 1)) :
        /\ p[1] <= p[2]
        /\ \A r \in p[1]..p[2] : BlankRow(r)
        /\ ~BlankRow(p[1] - 1) /\ ~BlankRow(p[2] + 1)
        /\ p[2] - p[1] + 1 >= min_height }

\* C21: the returned gaps are exactly the maximal runs of consecutive blank
\* rows of at least min_height rows, ordered by start, disjoint and separated
\* by a non-blank row, each with height = end - start + 1 and
\* start <= mid = floor((start + end) / 2) <= end; a run touching the first or
\* the last row is returned like any other, a page without blank row gives
\* the empty list.
C21_GapsAreMaximalRuns ==
    DetDone =>
        /\ {<<det_gaps[k].start, det_gaps[k]["end"]>> : k \in 1..Len(det_gaps)}
              = MaximalRuns
        /\ Len(det_gaps) = Cardinality(MaximalRuns)
        /\ \A k \in 1..Len(det_gaps) :
              /\ det_gaps[k].height = det_gaps[k]["end"] - det_gaps[k].start + 1
              /\ det_gaps[k].mid = (det_gaps[k].start + det_gaps[k]["end"]) \div 2
              /\ det_gaps[k].start <= det_gaps[k].mid
              /\ det_gaps[k].mid <= det_gaps[k]["end"]
        /\ \A k \in 1..(Len(det_gaps) - 1) :
              /\ det_gaps[k]["end"] + 1 < det_gaps[k + 1].start
              /\ \E r \in (det_gaps[k]["end"] + 1)..(det_gaps[k + 1].start - 1) :
                    ~BlankRow(r)

\* C21 witness: a run on the first rows and a run of exactly min_height rows
\* on the last rows, both returned, a shorter run between them dropped
C21_Witness ==
    /\ DetDone
    /\ is_gap = <<TRUE, TRUE, FALSE, TRUE, FALSE, TRUE, TRUE>>
    /\ min_height = 2
    /\ Len(det_gaps) = 2
    /\ det_gaps[1].start = 0
    /\ det_gaps[2]["end"] = Len(is_gap) - 1

-----------------------------------------------------------------------------
(* Saving the cuts                                                          *)
(***************************************************************************)

CutDone == cut_pc = "done"

\* the files written for one page, in the order written
CutsOfPage(p) == SelectSeq(all_cuts, LAMBDA c : c.page = p)

\* the pairs of consecutive boundaries of a page, top first
BoundaryPairs(b) == [k \in 1..(Len(b) - 1) |-> <<b[k], b[k + 1]>>]

\* the pairs of a page spanning at least 30 rows, top first
WideEnoughPairs(b) == SelectSeq(BoundaryPairs(b), LAMBDA q : q[2] - q[1] >= 30)

-----------------------------------------------------------------------------
(* Termination of the splitter                                              *)
(***************************************************************************)

\* the body of the walking loop is about to run (line 517 holds)
WalkIterates == split_pc = "walk" /\ current_pos < end_y

\* one iteration appends exactly one boundary and breaks or moves down
OneBoundaryPerIteration ==
    WalkIterates =>
        /\ boundaries' = Append(boundaries, Last(boundaries'))
        /\ \/ split_pc' = "final" /\ current_pos' = current_pos
           \/ split_pc' = "walk" /\ current_pos' > current_pos

\* the largest number of boundaries of a page of H rows
BoundaryBudget(H) == IF H + 1 > 2 THEN H + 1 ELSE 2

\* C23 (as stated): _split_by_ratio returns on every input, every iteration
\* of the walking loop appends exactly one boundary and either leaves the
\* loop or strictly increases current_pos, and at most H boundaries are
\* produced.
C23_Terminates_Original ==
    /\ <>SplitDone
    /\ [][OneBoundaryPerIteration]_vars
    /\ [](SplitDone => Len(boundaries) <= total_height)

\* C23 (amended): _split_by_ratio returns on every input, every iteration of
\* the walking loop appends exactly one boundary and either leaves the loop
\* or strictly increases current_pos, and at most H + 1 boundaries are
\* produced (two for a page of no rows).
C23_Terminates ==
    /\ <>SplitDone
    /\ [][OneBoundaryPerIteration]_vars
    /\ [](SplitDone => Len(boundaries) <= BoundaryBudget(total_height))

\* a one-row page whose row is a gap too short to be a panel gap: the walk
\* returns the two boundaries 0 and 1
C23_Witness ==
    /\ SplitDone
    /\ total_height = 1
    /\ all_gaps = <<MkGap(0, 0)>>
    /\ boundaries = <<0, 1>>

-----------------------------------------------------------------------------
(* Pre-classification                                                       *)
(***************************************************************************)

AnDone == an_pc = "done"

\* the cut is listed under process, once, and under no skip category
FiledUnderProcess(r, name) ==
    /\ Cardinality({k \in 1..Len(r.process) : r.process[k] = name}) = 1
    /\ \A c \in SkipCategories : name \notin SeqRange(r[c])

\* C24: in the result of analyze_cuts_for_bubble, a cut for which process
\* raised or returned an action other than process, skip_sfx_only,
\* skip_no_bubble and skip_no_text (the action error of an unreadable image)
\* is listed under process; without a bubble processor every cut is listed
\* under process.
C24_FailuresAreProcessed ==
    AnDone =>
        \A i \in 1..Len(cut_files) :
            (\/ ~processor_ready
             \/ outcomes[i] \in {"raises", "error"})
            => FiledUnderProcess(an_result, cut_files[i])

\* one cut raises, one is unreadable, one has no bubble
C24_Witness ==
    /\ AnDone
    /\ processor_ready
    /\ outcomes = <<"raises", "skip_no_bubble", "error">>
    /\ Len(an_result.process) = 2
    /\ Len(an_result.skip_no_bubble) = 1

-----------------------------------------------------------------------------
(* The app, step 2                                                          *)
(***************************************************************************)

\* step 2-4 is open or the removal has run: the classification is stored
Classified == app_pc \in {"adjust", "processed"}

AppCategories == {"process"} \cup SeqRange(AppSkipCategories)

\* how often the item is listed in the category
TimesListed(c, item) ==
    Cardinality({k \in 1..Len(cut_classification[c]) : cut_classification[c][k] = item})

\* the cuts whose analysis failed in the last pre-classification
AnalysisFailed(item) == app_outcomes[item] \in {"error", "raises"}

\* C25: when the app's pre-classification loop ends, a cut for which process returned
\* the action error or raised is listed under process, where
\* analyze_cuts_for_bubble lists it, and under no skip category.
C25_FailedCutsAreProcessed ==
    (app_pc = "classify" /\ app_page = Len(cut_info_list)) =>
        \A item \in AppCuts(cut_info_list) :
            AnalysisFailed(item) =>
                /\ ListOfAction(app_outcomes[item]) = "process"
                /\ TimesListed("process", item) >= 1
                /\ \A c \in SeqRange(AppSkipCategories) : TimesListed(c, item) = 0

\* C28: once the classification is stored, and after every adjustment, every
\* cut of cut_info_list is listed exactly once over all category lists, and
\* no cut is both copied and handed to the removal call.
C28_EveryCutInOneList ==
    Classified =>
        /\ \A item \in AppCuts(cut_info_list) :
              Cardinality({ <<c, k>> \in AppCategories \X (1..(2 * Cardinality(AppCuts(cut_info_list)))) :
                              /\ k <= Len(cut_classification[c])
                              /\ cut_classification[c][k] = item }) = 1
        /\ app_sent \cap app_copied = {}

-----------------------------------------------------------------------------
(* The wait between edit calls                                              *)
(***************************************************************************)

\* the file was sent to the edit service
Requested(name) == name \in SeqRange(api_requests)

\* C26: when remove_speech_bubbles_selective has returned from a call with
\* delay > 0, then between the edit calls of every two consecutive process
\* targets that were both sent to the service, the delay was slept after the
\* first of the two.
C26_DelayBetweenEditCalls ==
    (SelDone /\ delay > 0) =>
        \A k \in 1..(Len(ApiTargets(classification)) - 1) :
            (/\ Requested(ApiTargets(classification)[k])
             /\ Requested(ApiTargets(classification)[k + 1]))
            => \E w \in 1..Len(slept) :
                  /\ slept[w].after = ApiTargets(classification)[k]
                  /\ slept[w].seconds = delay

-----------------------------------------------------------------------------
(* remove_speech_bubbles: attempts and result entries                       *)

RsbDone == rsb_pc = "done"

\* the calls made for the cut at position c, in order
CallsOfCut(c) == SelectSeq(rsb_calls, LAMBDA e : e.cut = c)

\* the message names a server error, whatever its case
NamesServerError(msg) ==
    \E k \in 1..Len(msg) : msg[k] \in {"500", "internal", "Internal", "INTERNAL"}

\* C27: remove_speech_bubbles calls the edit service at most 3 times per
\* cut; a call after the first follows a call that raised an error whose
\* message contains '500' or 'internal'; once the loop has returned, results
\* holds exactly one entry per input cut, in order, a success or a failure
\* with its error text, and every readable cut was sent to the service,
\* whatever happened to the cuts before it.
C27_BoundedRetriesOneEntryPerCut ==
    /\ \A c \in 1..Len(rsb_cut_files) :
          /\ Len(CallsOfCut(c)) <= 3
          /\ \A k \in 1..Len(CallsOfCut(c)) :
                /\ CallsOfCut(c)[k].retry = k - 1
                /\ k > 1 => NamesServerError(CallsOfCut(c)[k - 1].outcome)
    /\ RsbDone =>
          /\ Len(rsb_results) = Len(rsb_cut_files)
          /\ \A c \in 1..Len(rsb_cut_files) :
                /\ rsb_results[c].input = rsb_cut_files[c]
                /\ rsb_results[c].success \in BOOLEAN
                /\ ~rsb_results[c].success => rsb_results[c].error # <<>>
                /\ rsb_cut_files[c] \in rsb_readable => Len(CallsOfCut(c)) >= 1

\* the first cut failed after three server errors, the second after an
\* error of another kind at its first call
C27_Witness ==
    /\ RsbDone
    /\ Len(rsb_cut_files) = 2
    /\ Len(CallsOfCut(1)) = 3
    /\ ~rsb_results[1].success
    /\ Len(CallsOfCut(2)) = 1
    /\ ~rsb_results[2].success
    /\ rsb_results[2].error = <<"429", "quota">>

-----------------------------------------------------------------------------
(* The stage flags of a session                                             *)

\* the flag is present and set
Flag(key) == Get(session_state, key, FALSE)

\* the keys of the stages: conversion, cut split, classification, removal
StageKeys ==
    <<{"step1_done", "converted_png_list", "selected_png_indices",
       "processed_png_indices", "conversion_info"},
      {"cut_split_done", "cut_info_list", "preview_page_idx"},
      {"step2_classification_done", "cut_classification", "cut_details"},
      {"processing_done", "processing_result", "error_cuts",
       "reprocess_selected", "reprocess_checkbox_version"}>>

StageFlags ==
    <<"step1_done", "cut_split_done", "step2_classification_done", "processing_done">>

\* t is s with stage n and every later stage reset, the rest untouched
ResetFrom(n, s, t) ==
    /\ \A m \in n..4 : t[StageFlags[m]] = FALSE
    /\ t.processing_result = <<>> /\ t.error_cuts = <<>>
    /\ n <= 3 => t.cut_classification = NoClassification /\ t.cut_details = {}
    /\ n <= 2 => t.cut_info_list = <<>>
    /\ \A m \in 1..(n - 1) : \A k \in StageKeys[m] : t[k] = s[k]
    /\ \A k \in DOMAIN s \ UNION SeqRange(StageKeys) : t[k] = s[k]

\* C29: between any two runs of the script, processing_done implies
\* step2_classification_done, which implies cut_split_done, which implies
\* step1_done; and clear_from_cut_split, clear_from_classification and
\* clear_from_processing, called in the session the next run starts with,
\* each reset the flag and the data of their stage and of every later stage
\* and leave the flags and the data of the earlier stages as they were.
C29_StageFlagsFormAChain ==
    /\ Flag("processing_done") => Flag("step2_classification_done")
    /\ Flag("step2_classification_done") => Flag("cut_split_done")
    /\ Flag("cut_split_done") => Flag("step1_done")
    /\ ses_pc = "run" =>
          /\ ResetFrom(2, Session, clear_from_cut_split(Session))
          /\ ResetFrom(3, Session, clear_from_classification(Session))
          /\ ResetFrom(4, Session, clear_from_processing(Session))

\* the session after a removal run on two split and classified pages, one
\* of them previewed
C29_Witness ==
    /\ Flag("processing_done")
    /\ Flag("step1_done")
    /\ Len(session_state.cut_info_list) = 2
    /\ session_state.cut_classification.process # <<>>
    /\ session_state.preview_page_idx = 1
    /\ session_state.error_cuts # <<>>

-----------------------------------------------------------------------------
(* Consistency of the verdict of process                                    *)

\* C30: in every verdict process returns for a readable image, has_bubble
\* is true exactly when bubble_count > 0, has_dialogue exactly when
\* dialogue_count > 0, total is the number of retained snippets,
\* dialogue_count + sfx_count + meta_count <= total, the action
\* skip_no_bubble comes with has_bubble and has_dialogue both false, and the
\* action skip_sfx_only with has_dialogue false and sfx_count > 0.
C30_VerdictConsistent ==
    ProcReturnedReadable =>
        LET ta == result.text_analysis IN
        /\ result.has_bubble <=> result.bubble_count > 0
        /\ result.has_dialogue <=> ta.dialogue_count > 0
        /\ ta.total = Len(detected_texts)
        /\ ta.total = Len(ta.texts)
        /\ ta.dialogue_count + ta.sfx_count + ta.meta_count <= ta.total
        /\ result.action = "skip_no_bubble" =>
              ~result.has_bubble /\ ~result.has_dialogue
        /\ result.action = "skip_sfx_only" =>
              ~result.has_dialogue /\ ta.sfx_count > 0

\* two bubbles, an effect read in one and a credit in the other: the
\* panel is skipped as sfx only although it has bubbles
C30_Witness ==
    /\ ProcReturnedReadable
    /\ result.has_bubble
    /\ result.bubble_count = 2
    /\ result.action = "skip_sfx_only"
    /\ result.text_analysis.sfx_count = 1
    /\ result.text_analysis.meta_count = 1
    /\ result.text_analysis.total = 2

=============================================================================
